---------------------------- MODULE Spec2Model ----------------------------
(***************************************************************************)
(* Model of the Pflix worker runtime service (pflix_service.rs): the       *)
(* runtime initializer, block dispatch counters and the four-step worker   *)
(* key handover between a server instance and a client instance.           *)
(*                                                                         *)
(* Option<T> values are sequences: None is << >> and Some(x) is << x >>.   *)
(* Hashes, keys, reports and ciphertexts are symbolic terms: a hash is     *)
(* injective, a ciphertext opens only under the key and iv that made it.   *)
(***************************************************************************)
EXTENDS Integers, Sequences, FiniteSets, TLC

\* ------------------------------------------------------------------ bounds
\* Challenges a node may issue in one run (also the supply of nonces).
MaxIssue == 2
\* Ephemeral handover keys a node may generate in one run.
MaxAccept == 2
\* Highest header number sync_header is driven to (next_header_number).
MaxHeader == 152
\* Highest header and block number of the short batches.
MaxSync == 2
\* Longest short batch of blocks.
MaxBatch == 2
\* The safe-mode levels are 0, 1 and 2.
MaxSafeModeLevel == 2

\* ------------------------------------------------------- program constants
\* handover_start: "only challenge within 150 blocks (30 minutes) is accepted"
ChallengeMaxAge == 150

\* ---------------------------------------------------------------- domains
Nodes == {"S", "C"}

None == << >>
Some(x) == << x >>
IsSome(o) == o # << >>
Unwrap(o) == o[1]

\* Attestation reports get_runtime_info is driven to create on one node.
MaxReports == 2
\* The largest ra_max_retries create_attestation_report_on is given.
MaxRetries == 65
\* Length of the chain whose headers are synced whole and in chunks.
MaxChain == 4
MaxInbound == 3
MaxMessages == 3

\* Sizes of the header batches handed to sync_header and of the block
\* batches handed to dispatch_blocks: they put a challenge exactly 150 and
\* exactly 151 blocks behind the current block.
HeaderBatchSizes == {151}
BatchSizes == {150, 151}
\* Enclave measurements; Measurement(n) is what the hardware reports for n.
Measurements == {"mrA", "mrB", "mrC", "mrD"}

\* Genesis block hash of the (single) chain the nodes follow.
GenesisHash == "genesis"
\* Identity secret keys: generated per node, a debug seed, a foreign key.
DebugKey == "sk_debug"
ForeignKey == "sk_foreign"

\* ------------------------------------------------- symbolic cryptography
\* sp_core::hashing::blake2_256: an injective hash of the encoded value.
blake2_256(x) == [hash_of |-> x]

\* ECDH secret keys: ephemeral handover keys, keys derived from an identity
\* key, and a key held by a party outside the two nodes.
EphKey(i) == [src |-> "eph", idx |-> i]
derive_ecdh_key(sk) == [src |-> sk, idx |-> 0]
OutsiderKey == [src |-> "outsider", idx |-> 0]
Public(k) == [pub |-> k]
\* Diffie-Hellman agreement: the same secret from either side.
Agree(k, P) == {k, P.pub}

\* key_share::encrypt_secret_to: returns (own ecdh public key, ciphertext).
encrypt_secret_to(identity_key, ecdh_pubkey, secret, iv) ==
    LET my == derive_ecdh_key(identity_key)
    IN  [ecdh_pubkey |-> Public(my),
         encrypted_key |-> [key |-> Agree(my, ecdh_pubkey), iv |-> iv, secret |-> secret]]

\* key_share::decrypt_secret_from: Some(secret), or None when the key
\* agreed with the peer or the iv is not the one that sealed the ciphertext.
decrypt_secret_from(my_ecdh_key, peer_pubkey, ct, iv) ==
    IF ct.key = Agree(my_ecdh_key, peer_pubkey) /\ ct.iv = iv
    THEN Some(ct.secret)
    ELSE None

\* ------------------------------------------------------ enclave hardware
\* The measurement the hardware reports for each node's build.
Measurement(n) == IF n = "S" THEN "mrB" ELSE "mrC"

\* sgx_api_lite::target_info + encode: the node's local-attestation target.
EncodedTargetInfo(n) == << [ti |-> n] >>
\* sgx_api_lite::decode of a target info: fails on empty or foreign bytes.
TargetInfoDecodes(bytes) == Len(bytes) = 1 /\ bytes[1].ti \in Nodes
\* sgx_api_lite::report + encode: a local report of node n for a target.
EncodedLocalReport(n, target_bytes) ==
    << [la_from |-> n, la_target |-> target_bytes[1].ti] >>
\* sgx_api_lite::decode of a local report.
LocalReportDecodes(bytes) == Len(bytes) = 1 /\ bytes[1].la_from # "garbage"
\* sgx_api_lite::verify at node n: the report was made on this machine for n.
LocalReportVerifies(n, bytes) ==
    bytes[1].la_target = n /\ bytes[1].la_from \in Nodes

\* platform.create_attestation_report: a report of the node's enclave bound
\* to the data, under the given provider.
RaReport(provider, data, m, valid) ==
    [provider |-> provider, payload_hash |-> data, measurement |-> m, valid |-> valid]
\* pb::Attestation: encoded_report either decodes to Option<AttestationReport>
\* or does not decode.
PbAttestation(decodes, report) == [decodes |-> decodes, report |-> report]

\* pfx_types::attestation::validate: the report is present, its signature and
\* embedded time are acceptable at the reference time, and it is bound to the
\* expected payload hash.  none_ok: whether an absent report is accepted.
validate_attestation_report(report, payload_hash, none_ok) ==
    IF report = None THEN none_ok
    ELSE Unwrap(report).valid /\ Unwrap(report).payload_hash = payload_hash

\* ----------------------------------------------------------- chain storage
\* Two genesis states: every build registered, or the server's build missing.
RegistryAll == [m \in Measurements |->
                  CASE m = "mrA" -> Some(1) [] m = "mrB" -> Some(2)
                    [] m = "mrC" -> Some(3) [] OTHER -> None]
RegistryNoServer == [RegistryAll EXCEPT !["mrB"] = None]
GenesisStates == {[bins |-> RegistryAll], [bins |-> RegistryNoServer]}

\* ChainStorage::root: the content root of a storage.
StorageRoot(storage) == [root_of |-> storage]
\* ChainStorage::get_pflix_bin_added_at
get_pflix_bin_added_at(storage, m) == storage.bins[m]
\* ChainStorage::timestamp_now: the timestamp set by the last applied block
\* (12 s blocks: "150 blocks (30 minutes)").
MillisPerBlock == 12000
timestamp_now(block) == block * MillisPerBlock

\* ------------------------------------------------------------------ state
VARIABLES
    pfx,    \* [Nodes -> Pflix]: the fields of each node's Pflix instance
    rng,    \* random values drawn so far: [nonce, eph, iv] (each draw is fresh)
    net,    \* messages the nodes have returned: [challenges, responses, keys]
    hist,   \* per node history of the handover server: issued/checked/released
    ret,    \* the last call: [op, node, err, obs]; err = "" is Ok
    guard   \* the mutex of node S and the requests of its worker threads

vars == << pfx, rng, net, hist, ret, guard >>

\* Pflix::new: nothing initialised, no handover in progress.  sealed is the
\* persistent runtime data (sealed file) of the node.
PflixNew ==
    [dev_mode |-> FALSE, trusted_sk |-> FALSE, attestation_provider |-> None,
     runtime_state |-> None, system |-> None, runtime_info |-> None,
     handover_last_challenge |-> None, handover_ecdh_key |-> None,
     sealed |-> None,
     safe_mode_level |-> 0,      \* args.safe_mode_level
     enable_checkpoint |-> FALSE,  \* args.enable_checkpoint
     checkpoint_at |-> 0,        \* the block of the last checkpoint taken
     endpoint |-> None, signed_endpoint |-> None,
     ra_reports |-> 0,           \* attestation reports made for runtime_info
     state_pending |-> FALSE,    \* a state replacement is in progress
     stopped |-> FALSE]          \* the process was aborted by stop

HistNew ==
    [issued |-> 0,            \* challenges issued
     released |-> 0,          \* worker keys returned by handover_start
     last_issued |-> None,    \* the most recently issued challenge
     checked |-> FALSE,       \* verify_worker_key_challenge ran since then
     accepted |-> 0,          \* true results of it since then
     received |-> FALSE,      \* handover_receive succeeded since the last
                              \* handover_accept_challenge
     applied |-> None]        \* the first dispatch_blocks call that applied
                              \* its whole batch: the batch and synced_to

\* The worker threads that serve requests on node S, and the mutex they
\* share: nobody holds it, every thread is idle.
Threads == {"t1", "t2"}
IdleThread == [pc |-> "idle", op |-> "", left |-> 0]
GuardNew == [holder |-> None, thread |-> [t \in Threads |-> IdleThread]]

\* The mutex behind the guard: lock() returns only once no guard is held.
MutexFreeAlways(g) == TRUE
MutexFree(g) == g.holder = None

NoObs == [none |-> TRUE]
Ret(op, n, err, obs) == [op |-> op, node |-> n, err |-> err, obs |-> obs]

Init ==
    /\ pfx = [n \in Nodes |-> PflixNew]
    /\ rng = [nonce |-> 0, eph |-> 0, iv |-> 0]
    /\ net = [challenges |-> {}, responses |-> {}, keys |-> {}]
    /\ hist = [n \in Nodes |-> HistNew]
    /\ ret = Ret("new", "S", "", NoObs)
    /\ guard = GuardNew

\* ------------------------------------------------------ the runtime guard
\* The (allow_rcu, allow_safemode) flags each request passes to lock_pflix;
\* allow_rcu is the flag that admits a request while a state replacement
\* is pending.
GuardModeAllowAll(op) == [allow_rcu |-> TRUE, allow_safemode |-> TRUE]
GuardMode(op) ==
    CASE op \in {"get_info", "stop"} ->
            [allow_rcu |-> TRUE, allow_safemode |-> TRUE]
      [] op \in {"sync_header", "dispatch_blocks", "handover_create_challenge",
                 "handover_start", "handover_accept_challenge",
                 "handover_receive", "load_storage_proof"} ->
            [allow_rcu |-> FALSE, allow_safemode |-> TRUE]
      [] op \in {"get_runtime_info", "get_egress_messages", "get_endpoint_info",
                 "get_master_key_apply"} ->
            [allow_rcu |-> TRUE, allow_safemode |-> FALSE]
      [] OTHER ->    \* init_runtime, set_endpoint, refresh_endpoint_signing_time,
                     \* load_chain_state, take_checkpoint
            [allow_rcu |-> FALSE, allow_safemode |-> FALSE]

LockSafeMode == "LockError::SafeMode"
LockStatePending == "LockError::StatePending"

\* PflixSafeBox::lock: the errors the acquisition can fail with.  When both
\* rules refuse a request, which of the two errors is returned is not fixed.
LockErrors(p, mode) ==
    (IF p.safe_mode_level # 0 /\ ~mode.allow_safemode THEN {LockSafeMode} ELSE {})
      \cup (IF p.state_pending /\ ~mode.allow_rcu THEN {LockStatePending} ELSE {})

\* The process of node n is alive: stop has not aborted it.  A process
\* that was aborted serves no request: it neither admits nor refuses one.
Running(n) == ~pfx[n].stopped

\* lock_pflix(allow_rcu, allow_safemode) of request op on node n.
AdmittedUnlessSafeMode(n, op) ==
    Running(n) /\ LockSafeMode \notin LockErrors(pfx[n], GuardMode(op))
Admitted(n, op) == Running(n) /\ LockErrors(pfx[n], GuardMode(op)) = {}
Refused(n, op) ==
    /\ Running(n)
    /\ \E e \in LockErrors(pfx[n], GuardMode(op)) : ret' = Ret(op, n, e, NoObs)
    /\ UNCHANGED << pfx, rng, net, hist, guard >>

\* --------------------------------------------------------- runtime access
\* Pflix::runtime_state / Pflix::system: "Runtime not initialized" when unset.
RuntimeNotInitialized == "Runtime not initialized"

\* u32 arithmetic of BlockNumber.  A subtraction that wraps yields
\* 2^32 - (b - a), above every block number of the model: the largest
\* 32-bit signed integer stands for it.
saturating_sub(a, b) == IF a >= b THEN a - b ELSE 0
wrapping_sub(a, b) == IF a >= b THEN a - b ELSE 2147483647

\* Pflix::current_block: (next_block_number - 1 saturating, timestamp_now).
current_block(p) ==
    LET block == saturating_sub(Unwrap(p.runtime_state).next_block_number, 1)
    IN  [block |-> block, now_ms |-> timestamp_now(block)]

\* --------------------------------------------------------- init_runtime
\* Pflix::save_runtime_data: the persistent runtime data that gets sealed.
PersistentRuntimeData(genesis_block_hash, sk, trusted_sk, dev_mode) ==
    [genesis_block_hash |-> genesis_block_hash, sk |-> sk,
     trusted_sk |-> trusted_sk, dev_mode |-> dev_mode]

\* Pflix::init_runtime_data: a supplied debug key is saved as untrusted dev
\* data; otherwise the sealed data is loaded, or a new key is generated and
\* saved as trusted.
init_runtime_data(n, p, genesis_block_hash, debug_set_key) ==
    IF IsSome(debug_set_key)
    THEN PersistentRuntimeData(genesis_block_hash, Unwrap(debug_set_key), FALSE, TRUE)
    ELSE IF IsSome(p.sealed) THEN Unwrap(p.sealed)
    ELSE PersistentRuntimeData(genesis_block_hash, "sk_" \o n, TRUE, FALSE)

\* The genesis headers offered to init_runtime: the declared state root is
\* that of one of the genesis states.
Providers == {None, Some("Ias"), Some("Dcap")}
DebugKeys == {None, Some(DebugKey)}

\* RuntimeState after init_runtime: synchronizer counters start after the
\* genesis block (number 0).
NewRuntimeState(genesis_block_hash, chain_storage) ==
    [genesis_block_hash |-> genesis_block_hash, chain_storage |-> chain_storage,
     next_header_number |-> 1, next_block_number |-> 1,
     authority_set |-> 0,    \* id of the authority set headers must be signed by
     storage_at |-> 0,       \* the last block whose changes are in chain_storage
     mq_purged_at |-> 0,     \* the last block at which send_mq was purged
     dispatched_at |-> 0,    \* the last block the application system processed
     mq_messages |-> << >>,  \* ChainStorage::mq_messages of chain_storage
     recv_mq |-> [local_index |-> 0, pending |-> << >>],  \* inbound dispatcher
     inbound |-> [dispatched |-> << >>, handled |-> << >>, unhandled |-> 0,
                  steps |-> << >>],
                             \* what the last pass over the inbound messages did
     proof_loaded |-> FALSE] \* entries of a storage proof were loaded

\* Lines 808-819: the WorkerRegistrationInfo of init_runtime, with the
\* operator of the request, in
\* pb::InitRuntimeResponse::new(runtime_info, genesis_block_hash, pk, ecdh_pk, None)
InitRuntimeResponse(rt, genesis_block_hash, operator) ==
    [pubkey |-> Public(rt.sk), ecdh_pubkey |-> Public(derive_ecdh_key(rt.sk)),
     genesis_block_hash |-> genesis_block_hash, operator |-> operator,
     attestation |-> None]

\* Line 706: the one-shot test of init_runtime.
AlreadyInitializedNever(p) == FALSE
AlreadyInitialized(p) == IsSome(p.system)

\* Line 738: a debug key together with a remote-attestation provider.
RaDisallowedNever(dev_mode, attestation_provider) == FALSE
RaDisallowed(dev_mode, attestation_provider) ==
    dev_mode /\ IsSome(attestation_provider)

\* What an init_runtime call was given.
InitObs(header_root, genesis_state, debug_set_key, attestation_provider) ==
    [debug_set_key |-> debug_set_key,
     attestation_provider |-> attestation_provider,
     root_matches |-> StorageRoot(genesis_state) = header_root]

\* Pflix::init_runtime on instance p of node n, with quote_ok the outcome
\* of platform.quote_test: the instance after the call and the error.
init_runtime_on(n, p, header_root, genesis_state, operator, debug_set_key, attestation_provider, quote_ok) ==
    LET rt == init_runtime_data(n, p, GenesisHash, debug_set_key)
        \* lines 731-735: the fields written before the remaining checks
        p1 == [p EXCEPT !.sealed = Some(rt), !.dev_mode = rt.dev_mode,
                        !.trusted_sk = rt.trusted_sk,
                        !.attestation_provider = attestation_provider]
        err == IF RaDisallowed(rt.dev_mode, attestation_provider)
                 THEN "RA is disallowed when debug_set_key is enabled"
               ELSE IF ~quote_ok THEN "quote_test failed"
               ELSE IF StorageRoot(genesis_state) # header_root THEN "state root mismatch"
               ELSE ""
    IN  IF AlreadyInitialized(p)
        THEN [p |-> p, err |-> "Runtime already initialized"]
        ELSE IF err # "" THEN [p |-> p1, err |-> err]
        ELSE [p |-> [p1 EXCEPT
                       !.runtime_info = Some(InitRuntimeResponse(rt, GenesisHash, operator)),
                       !.runtime_state = Some(NewRuntimeState(GenesisHash, genesis_state)),
                       !.system = Some([identity_key |-> rt.sk,
                                        ecdh_key |-> derive_ecdh_key(rt.sk),
                                        genesis_block |-> 0])],
              err |-> ""]

init_runtime(n, header_root, genesis_state, operator, debug_set_key, attestation_provider, quote_ok) ==
    LET r == init_runtime_on(n, pfx[n], header_root, genesis_state, operator,
                             debug_set_key, attestation_provider, quote_ok)
    IN  /\ pfx' = [pfx EXCEPT ![n] = r.p]
        /\ ret' = Ret("init_runtime", n, r.err,
                      InitObs(header_root, genesis_state, debug_set_key,
                              attestation_provider))

\* The operator accounts a request may name.
Operators == {None, Some("operator_a"), Some("operator_b")}

\* The arguments of an init_runtime call: every debug key, provider and
\* genesis state with a matching header and a passing quote test, the
\* default arguments with an operator, and the two failures (quote test,
\* state root) beside the default arguments.  A call on an initialised
\* node fails before it reads any of them.
InitArgs(g, debug_set_key, provider) ==
    [header_root |-> StorageRoot(g), genesis_state |-> g, operator |-> None,
     debug_set_key |-> debug_set_key, provider |-> provider, quote_ok |-> TRUE]
DefaultInitArgs == InitArgs([bins |-> RegistryAll], None, None)
InitRuntimeArgs(n) ==
    IF IsSome(pfx[n].system)
    THEN {DefaultInitArgs}
    ELSE {InitArgs(g, k, a) : g \in GenesisStates, k \in DebugKeys, a \in Providers}
           \cup {[DefaultInitArgs EXCEPT !.operator = o] : o \in Operators}
           \cup {[DefaultInitArgs EXCEPT !.quote_ok = FALSE],
                 [DefaultInitArgs EXCEPT
                    !.header_root = StorageRoot([bins |-> RegistryNoServer])],
                 [InitArgs([bins |-> RegistryAll], None, Some("Ias")) EXCEPT
                    !.header_root = StorageRoot([bins |-> RegistryNoServer])]}

InitRuntime(n) ==
    IF Admitted(n, "init_runtime")
    THEN /\ \E a \in InitRuntimeArgs(n) :
               init_runtime(n, a.header_root, a.genesis_state, a.operator,
                            a.debug_set_key,
                            a.provider, a.quote_ok)
         /\ UNCHANGED << rng, net, hist, guard >>
    ELSE Refused(n, "init_runtime")

\* ------------------------------------------------- sync_header / dispatch
\* A header is its number; a block is its number and whether the state
\* root its header declares is the root of the storage after its changes.
\* messages are the messages its changes leave in the message queue of
\* the chain storage.
Block(number) == [number |-> number, root_ok |-> TRUE, messages |-> << >>]

\* A batch of k contiguous headers / blocks starting at number first.
\* A header: its number and the authority set that signed it; the link to
\* the parent is the number.  Headers(first, k) are k headers of a chain
\* whose authority set never changes.
Header(number, signed_by) == [number |-> number, signed_by |-> signed_by]
Headers(first, k) == [i \in 1..k |-> Header(first + i - 1, 0)]
Blocks(first, k) == [i \in 1..k |-> Block(first + i - 1)]

\* storage_synchronizer.counters()
counters(st) ==
    [next_header_number |-> st.next_header_number,
     next_block_number |-> st.next_block_number]

\* Synchronizer::sync_header: accepts headers that continue the header
\* chain and returns the last accepted number; fails and leaves the state
\* unchanged if they do not.
AuthoritySetKept(st, authority_set_change) == st.authority_set
AuthoritySetAfter(st, authority_set_change) ==
    IF authority_set_change = None THEN st.authority_set
    ELSE Unwrap(authority_set_change).set

\* The authority set a header of the batch must be signed by: the current
\* one up to the designated block of the change, the new one after it.
SignerOf(st, header, authority_set_change) ==
    IF /\ authority_set_change # None
       /\ header.number > Unwrap(authority_set_change).at
    THEN Unwrap(authority_set_change).set
    ELSE st.authority_set

Contiguous(headers) ==
    \A i \in 1 .. Len(headers) - 1 : headers[i + 1].number = headers[i].number + 1

synchronizer_sync_header(st, headers, authority_set_change) ==
    LET Fail(e) == [err |-> e, st |-> st, last_header |-> 0]
        last == headers[Len(headers)].number
    IN  IF headers = << >> THEN Fail("no headers")
        ELSE IF headers[1].number # st.next_header_number
          THEN Fail("header number mismatch")
        ELSE IF ~Contiguous(headers) THEN Fail("headers are not contiguous")
        ELSE IF /\ authority_set_change # None
                /\ Unwrap(authority_set_change).at \notin
                      {headers[i].number : i \in 1 .. Len(headers)}
          THEN Fail("authority set change outside the headers")
        ELSE IF \E i \in 1 .. Len(headers) :
                   headers[i].signed_by # SignerOf(st, headers[i], authority_set_change)
          THEN Fail("unrecognized authority set")
        ELSE [err |-> "",
              st |-> [st EXCEPT
                        !.next_header_number = last + 1,
                        !.authority_set = AuthoritySetAfter(st, authority_set_change)],
              last_header |-> last]

\* Pflix::sync_header.
SyncOffered(headers) ==
    [first |-> IF headers = << >> THEN 0 ELSE headers[1].number,
     offered |-> Len(headers),
     contiguous |-> Contiguous(headers),
     signers |-> {headers[i].signed_by : i \in 1 .. Len(headers)},
     change |-> None,
     synced_to |-> 0]

sync_header(n, headers, authority_set_change) ==
    LET p == pfx[n]
        obs == [SyncOffered(headers) EXCEPT !.change = authority_set_change]
    IN
    IF p.runtime_state = None
    THEN /\ pfx' = pfx
         /\ ret' = Ret("sync_header", n, RuntimeNotInitialized, obs)
    ELSE LET r == synchronizer_sync_header(Unwrap(p.runtime_state), headers,
                                           authority_set_change)
         IN  IF r.err # ""
             THEN /\ pfx' = pfx
                  /\ ret' = Ret("sync_header", n, r.err, obs)
             ELSE /\ pfx' = [pfx EXCEPT ![n].runtime_state = Some(r.st)]
                  /\ ret' = Ret("sync_header", n, "",
                                [obs EXCEPT !.synced_to = r.last_header])

\* Synchronizer::feed_block: the block must be the next one; its storage
\* changes are applied and, unless drop_proofs, the resulting root is
\* compared with the declared one.  A rejected block changes nothing.
StateRootMismatch == "state root mismatch"

feed_block(st, block, drop_proofs) ==
    IF block.number # st.next_block_number
      THEN [err |-> "block number mismatch", st |-> st]
    ELSE IF ~drop_proofs /\ ~block.root_ok
      THEN [err |-> StateRootMismatch, st |-> st]
    ELSE [err |-> "",
          st |-> [st EXCEPT !.next_block_number = block.number + 1,
                            !.storage_at = block.number,
                            !.mq_messages = block.messages]]

\* Line 648: the blocks of a batch that dispatch_blocks keeps.
BlockRetainedAlways(block, c) == TRUE
BlockRetained(block, c) == block.number >= c.next_block_number

\* Line 662.
DropProofs(safe_mode_level) == safe_mode_level > 1

\* Line 668: the rest of the loop body is skipped in safe mode.
SkipProcessingFromLevel2(safe_mode_level) == safe_mode_level > 1
SkipProcessing(safe_mode_level) == safe_mode_level > 0

\* What one dispatch_blocks call did: the batch it was given, the number of
\* the first block handed
\* to feed_block (0 if none), the blocks fed, the drop_proofs flags passed,
\* and how often the queue was purged, the inbound messages were dispatched
\* to the application system, maybe_take_checkpoint was called, for each
\* of these calls whether the checkpoint interval had elapsed by then and
\* whether take_checkpoint was attempted, and how often take_checkpoint
\* was attempted and a checkpoint was taken.
NoDispatch ==
    [first |-> 0, offered |-> 0,
     fed_from |-> 0, fed |-> 0, drop_proofs |-> {}, purged |-> 0,
     dispatched |-> 0, checkpoint_calls |-> 0, checkpoint_due |-> << >>,
     checkpoint_tried |-> << >>,
     checkpoint_attempts |-> 0, checkpoints |-> 0,
     bad_roots |-> {},
     messages |-> << >>, steps |-> << >>,
     synced_to |-> 0]

\* The same for a call that was given blocks: the number of the first one,
\* how many there are, the numbers of those that declare a wrong state
\* root, and how many inbound messages each one carries.
Offered(blocks) ==
    [NoDispatch EXCEPT
       !.first = IF blocks = << >> THEN 0 ELSE blocks[1].number,
       !.offered = Len(blocks),
       !.messages = [i \in 1 .. Len(blocks) |-> Len(blocks[i].messages)],
       !.bad_roots = {blocks[i].number : i \in {j \in 1 .. Len(blocks) :
                                                  ~blocks[j].root_ok}}]

\* The clock and the checkpoint store during one call, turn by turn of the
\* loop: elapsed[i] is what line 689 finds in turn i (whether
\* checkpoint_interval seconds have passed since the last checkpoint), and
\* checkpoint_ok[i] whether take_checkpoint succeeds there.  The clock is
\* read anew in every turn: the interval may elapse in the middle of a
\* call, and with checkpoint_interval = 0 every reading finds it elapsed,
\* right after a checkpoint too.  The outcome of take_checkpoint matters
\* only in the turns where it is called.
CheckpointEnvs(turns) ==
    {env \in [elapsed : [1 .. turns -> BOOLEAN],
              checkpoint_ok : [1 .. turns -> BOOLEAN]] :
        \A i \in 1 .. turns : ~env.elapsed[i] => env.checkpoint_ok[i]}

\* A call during which the interval does not elapse: turns beyond the
\* readings listed find the interval not elapsed and the store in order.
NoCheckpointDue == [elapsed |-> << >>, checkpoint_ok |-> << >>]
IntervalElapsed(env, turn) == turn <= Len(env.elapsed) /\ env.elapsed[turn]
CheckpointOk(env, turn) ==
    turn > Len(env.checkpoint_ok) \/ env.checkpoint_ok[turn]

\* Lines 686-691: maybe_take_checkpoint returns before take_checkpoint
\* unless checkpoints are enabled and checkpoint_interval seconds have
\* passed since the last one.
CheckpointSkippedUnlessElapsed(p, elapsed) == ~elapsed
CheckpointSkipped(p, elapsed) == ~p.enable_checkpoint \/ ~elapsed

\* Pflix::maybe_take_checkpoint after block number, with elapsed the
\* reading of the clock in this turn and checkpoint_ok the outcome of
\* take_checkpoint: [p, attempted, taken]; a checkpoint that failed is
\* only logged by the caller (lines 677-679).
maybe_take_checkpoint(p, number, elapsed, checkpoint_ok) ==
    IF CheckpointSkipped(p, elapsed)
    THEN [p |-> p, attempted |-> 0, taken |-> 0]
    ELSE IF checkpoint_ok
    THEN [p |-> [p EXCEPT !.checkpoint_at = number],
          attempted |-> 1, taken |-> 1]
    ELSE [p |-> p, attempted |-> 1, taken |-> 0]

\* The inbound dispatcher (recv_mq).  dispatch queues a message under the
\* next local index; the application system takes the queued messages of
\* the topics it consumes; clear drops what is left and counts it.
WorkerEventTopic == "worker/event"
ConsumedTopics == {WorkerEventTopic, "consumed"}
Topics == ConsumedTopics \cup {"unconsumed"}

reset_local_index(recv_mq) == [recv_mq EXCEPT !.local_index = 0]
dispatch(recv_mq, message) ==
    [local_index |-> recv_mq.local_index + 1,
     pending |-> Append(recv_mq.pending,
                        [sn |-> recv_mq.local_index, message |-> message])]
Claimed(entry) == entry.message.topic \in ConsumedTopics
Unclaimed(entry) == ~Claimed(entry)
process_messages(recv_mq) ==
    [taken |-> SelectSeq(recv_mq.pending, Claimed),
     recv_mq |-> [recv_mq EXCEPT !.pending = SelectSeq(@, Unclaimed)]]
KeepPending(recv_mq) ==
    [n_unhandled |-> Len(recv_mq.pending), recv_mq |-> recv_mq]
clear(recv_mq) ==
    [n_unhandled |-> Len(recv_mq.pending),
     recv_mq |-> [recv_mq EXCEPT !.pending = << >>]]

\* One step of the work on a block: what was done, the block being
\* dispatched, the block and index of the message it was done to (0 if
\* none), and the block whose changes the storage then had.
Step(kind, block, of, index, storage_at) ==
    [kind |-> kind, block |-> block, of |-> of, index |-> index,
     storage_at |-> storage_at]

\* Line 992: process_messages runs after every message that was dispatched.
ProcessedAfterLast(i, messages) == i = Len(messages)
ProcessedAfterEach(i, messages) == TRUE

\* The loop of lines 963-993 over messages[i .. Len(messages)]: each message
\* is dispatched and the application system then processes what it
\* consumes; a is [recv_mq, dispatched, handled, steps], st the runtime
\* state and block_number the block being dispatched.
RECURSIVE InboundLoop(_, _, _, _, _)
InboundLoop(st, block_number, messages, i, a) ==
    IF i > Len(messages) THEN a
    ELSE LET m == messages[i]
             d == dispatch(a.recv_mq, m)
             processed == ProcessedAfterEach(i, messages)
             pm == IF processed THEN process_messages(d)
                   ELSE [taken |-> << >>, recv_mq |-> d]
             dispatched == Step("dispatch", block_number, m.block, m.index,
                                st.storage_at)
             steps == IF processed
                      THEN << dispatched,
                              Step("process_messages", block_number, m.block,
                                   m.index, st.storage_at) >>
                      ELSE << dispatched >>
         IN  InboundLoop(st, block_number, messages, i + 1,
                         [recv_mq |-> pm.recv_mq,
                          dispatched |-> Append(a.dispatched, m),
                          handled |-> a.handled \o pm.taken,
                          steps |-> a.steps \o steps])

\* Pflix::handle_inbound_messages(block_number) on an initialised runtime:
\* the messages of the chain storage are dispatched in their order, the
\* application system processes the block and the inbound dispatcher is
\* cleared.
handle_inbound_messages(st, block_number) ==
    LET a == InboundLoop(st, block_number, st.mq_messages, 1,
                         [recv_mq |-> reset_local_index(st.recv_mq),
                          dispatched |-> << >>, handled |-> << >>,
                          steps |-> << Step("will_process_block", block_number,
                                            0, 0, st.storage_at) >>])
        cl == clear(a.recv_mq)
    IN  [st EXCEPT !.dispatched_at = block_number,
                   !.recv_mq = cl.recv_mq,
                   !.inbound = [dispatched |-> a.dispatched,
                                handled |-> a.handled,
                                unhandled |-> cl.n_unhandled,
                                steps |-> Append(a.steps,
                                    Step("did_process_block", block_number,
                                         0, 0, st.storage_at))]]

\* RuntimeState::purge_mq.
purge_mq(st, block_number) == [st EXCEPT !.mq_purged_at = block_number]

\* Lines 663-666: the ? on the result of feed_block leaves the loop and
\* the call with the error.
AbortedNever(a) == FALSE
Aborted(a) == a.err # ""

\* One iteration of the loop of dispatch_blocks (lines 657-680) for block;
\* a is [p, turn, obs, err] with turn the number of this iteration, and an
\* error ends the loop.
DispatchStep(a, block, env) ==
    IF Aborted(a) THEN a
    ELSE
    LET level == a.p.safe_mode_level
        drop_proofs == DropProofs(level)
        fb == feed_block(Unwrap(a.p.runtime_state), block, drop_proofs)
        tried == [a.obs EXCEPT
                    !.fed_from = IF @ = 0 THEN block.number ELSE @,
                    !.drop_proofs = @ \cup {drop_proofs}]
        fed == Step("feed_block", block.number, 0, 0, fb.st.storage_at)
    IN  IF fb.err # ""
        THEN [a EXCEPT !.obs = tried, !.err = fb.err]
        ELSE IF SkipProcessing(level)
        THEN [a EXCEPT !.p.runtime_state = Some(fb.st),
                       !.turn = @ + 1,
                       !.obs = [tried EXCEPT !.fed = @ + 1,
                                             !.steps = Append(@, fed)]]
        ELSE
        LET st1 == purge_mq(fb.st, block.number)
            st2 == handle_inbound_messages(st1, block.number)
            p2 == [a.p EXCEPT !.runtime_state = Some(st2)]
            elapsed == IntervalElapsed(env, a.turn)
            cp == maybe_take_checkpoint(p2, block.number, elapsed,
                                        CheckpointOk(env, a.turn))
        IN  [a EXCEPT !.p = cp.p, !.turn = @ + 1,
                      !.obs = [tried EXCEPT
                                 !.steps = (@ \o
                                    << fed,
                                       Step("purge_mq", block.number, 0, 0,
                                            st1.storage_at) >>
                                    \o st2.inbound.steps) \o
                                    << Step("maybe_take_checkpoint",
                                            block.number, 0, 0,
                                            Unwrap(cp.p.runtime_state).storage_at) >>,
                                 !.fed = @ + 1, !.purged = @ + 1,
                                 !.dispatched = @ + 1,
                                 !.checkpoint_calls = @ + 1,
                                 !.checkpoint_due = Append(@, elapsed),
                                 !.checkpoint_tried =
                                     Append(@, cp.attempted = 1),
                                 !.checkpoint_attempts = @ + cp.attempted,
                                 !.checkpoints = @ + cp.taken]]

\* The loop over blocks[lo..hi] in ascending order: the first half, then,
\* unless it ended in an error, the second half.
RECURSIVE DispatchLoop(_, _, _, _, _)
DispatchLoop(blocks, lo, hi, env, a) ==
    IF lo > hi THEN a
    ELSE IF lo = hi THEN DispatchStep(a, blocks[lo], env)
    ELSE LET mid == (lo + hi) \div 2
             left == DispatchLoop(blocks, lo, mid, env, a)
         IN  IF Aborted(left) THEN left
             ELSE DispatchLoop(blocks, mid + 1, hi, env, left)

\* Lines 650-653: the number dispatch_blocks reports.
LastBlockOrNext(retained, c) ==
    IF retained # << >> THEN retained[Len(retained)].number
    ELSE c.next_block_number
LastBlock(retained, c) ==
    IF retained # << >> THEN retained[Len(retained)].number
    ELSE wrapping_sub(c.next_block_number, 1)

\* Line 653: the argument of unwrap_or is computed for every batch, and
\* next_block_number - 1 is a plain u32 subtraction: below 1 a build with
\* overflow checks panics there and one without wraps.
SubtractPanic == "panicked: attempt to subtract with overflow"
SubtractOverflows(a, b) == a < b

\* Pflix::dispatch_blocks in a build with or without overflow checks.
dispatch_blocks_built(n, blocks, env, overflow_checks) ==
    LET p == pfx[n] IN
    IF p.runtime_state = None
    THEN /\ pfx' = pfx
         /\ hist' = hist
         /\ ret' = Ret("dispatch_blocks", n, RuntimeNotInitialized, Offered(blocks))
    ELSE IF /\ overflow_checks
            /\ SubtractOverflows(
                   counters(Unwrap(p.runtime_state)).next_block_number, 1)
    THEN /\ pfx' = pfx
         /\ hist' = hist
         /\ ret' = Ret("dispatch_blocks", n, SubtractPanic, Offered(blocks))
    ELSE LET c == counters(Unwrap(p.runtime_state))
             retained == SelectSeq(blocks, LAMBDA b : BlockRetained(b, c))
             last_block == LastBlock(retained, c)
         IN  \E r \in {DispatchLoop(retained, 1, Len(retained), env,
                             [p |-> p, turn |-> 1,
                              obs |-> Offered(blocks), err |-> ""])} :
               /\ pfx' = [pfx EXCEPT ![n] = r.p]
               /\ hist' = IF /\ hist[n].applied = None /\ r.err = ""
                             /\ blocks # << >> /\ r.obs.fed = Len(blocks)
                          THEN [hist EXCEPT ![n].applied =
                                   Some([first |-> r.obs.first,
                                         offered |-> r.obs.offered,
                                         synced_to |-> last_block])]
                          ELSE hist
               /\ ret' = IF r.err # ""
                         THEN Ret("dispatch_blocks", n, r.err, r.obs)
                         ELSE Ret("dispatch_blocks", n, "",
                                  [r.obs EXCEPT !.synced_to = last_block])

\* Pflix::dispatch_blocks where next_block_number is at least 1, as it is
\* after init_runtime: both builds do the same.
dispatch_blocks(n, blocks, env) == dispatch_blocks_built(n, blocks, env, FALSE)

DecodeError == "DecodeError"

\* The sync_header request: the headers are decoded before the guard is
\* asked for.
RpcSyncHeader(n, decodes, headers, authority_set_change) ==
    IF ~decodes
    THEN /\ Running(n)
         /\ ret' = Ret("sync_header", n, DecodeError, NoObs)
         /\ UNCHANGED << pfx, rng, net, hist, guard >>
    ELSE IF Admitted(n, "sync_header")
    THEN /\ sync_header(n, headers, authority_set_change)
         /\ UNCHANGED << rng, net, hist, guard >>
    ELSE Refused(n, "sync_header")

\* The dispatch_blocks request: the blocks are decoded before the guard is
\* asked for.
RpcDispatchBlocks(n, decodes, blocks, env) ==
    IF ~decodes
    THEN /\ Running(n)
         /\ ret' = Ret("dispatch_blocks", n, DecodeError, NoDispatch)
         /\ UNCHANGED << pfx, rng, net, hist, guard >>
    ELSE IF Admitted(n, "dispatch_blocks")
    THEN /\ dispatch_blocks(n, blocks, env)
         /\ UNCHANGED << rng, net, guard >>
    ELSE Refused(n, "dispatch_blocks")

\* The number the next header / block of node n has (1 before init_runtime).
NextHeader(n) ==
    IF pfx[n].runtime_state = None THEN 1
    ELSE Unwrap(pfx[n].runtime_state).next_header_number
NextBlock(n) ==
    IF pfx[n].runtime_state = None THEN 1
    ELSE Unwrap(pfx[n].runtime_state).next_block_number

\* The order in which a relayer feeds an initialised node: a block after
\* its header.  What feed_block does with a block whose header has not
\* been synced is decided by code that is not modelled, so no such block
\* is offered.
HeaderSynced(n, number) ==
    pfx[n].runtime_state # None => number < NextHeader(n)

\* A relayer that follows the chain: long batches that continue where the
\* node is, with no checkpoint due.
SyncHeader(n) ==
    \E k \in HeaderBatchSizes :
        /\ NextHeader(n) + k <= MaxHeader
        /\ RpcSyncHeader(n, TRUE, Headers(NextHeader(n), k), None)

DispatchBlocks(n) ==
    \E k \in BatchSizes :
        /\ HeaderSynced(n, NextBlock(n) + k - 1)
        /\ RpcDispatchBlocks(n, TRUE, Blocks(NextBlock(n), k), NoCheckpointDue)

\* -------------------------------------- load_chain_state / storage proof
\* Synchronizer::assume_at_block: an override that puts the synchronizer
\* right after block without validating anything, wherever the counters
\* were.  The call returns a Result (line 1075); assume_ok is whether it
\* is Ok.
assume_at_block(st, block, assume_ok) ==
    IF ~assume_ok
    THEN [err |-> "Failed to set synchronizer state", st |-> st]
    ELSE [err |-> "",
          st |-> [st EXCEPT !.next_header_number = block + 1,
                            !.next_block_number = block + 1]]

\* Line 1069: a state in which the identity key of the worker is already
\* registered is not loaded.
RegisteredStateLoaded(registered) == FALSE
RegisteredStateRefused(registered) == registered

\* Pflix::load_chain_state(block, storage); can_load is the outcome of
\* can_load_chain_state, registered that of is_worker_registered on the
\* storage given, and assume_ok that of assume_at_block.  Line 1076 installs
\* a ChainStorage built from the storage given alone (line 1068): the
\* messages of the last block fed and the entries of a loaded storage proof
\* were in the object it replaces.
load_chain_state(n, block, storage, can_load, registered, assume_ok) ==
    LET p == pfx[n]
        obs == [block |-> block, storage |-> storage, can_load |-> can_load,
                registered |-> registered, assume_ok |-> assume_ok]
        Fail(e) == /\ pfx' = pfx
                   /\ ret' = Ret("load_chain_state", n, e, obs)
    IN  IF ~can_load THEN Fail("Can not load chain state")
        ELSE IF block = 0 THEN Fail("Can not load chain state from block 0")
        ELSE IF p.system = None THEN Fail("System is uninitialized")
        ELSE IF p.runtime_state = None THEN Fail("Runtime is uninitialized")
        ELSE IF RegisteredStateRefused(registered)
          THEN Fail("Failed to load state: the worker is already registered")
        ELSE LET r == assume_at_block(Unwrap(p.runtime_state), block,
                                      assume_ok) IN
             IF r.err # "" THEN Fail(r.err)
             ELSE /\ pfx' = [pfx EXCEPT
                       ![n].runtime_state =
                           Some([r.st EXCEPT !.chain_storage = storage,
                                             !.storage_at = block,
                                             !.mq_messages = << >>,
                                             !.proof_loaded = FALSE]),
                       ![n].system =
                           Some([Unwrap(p.system) EXCEPT !.genesis_block = block])]
                  /\ ret' = Ret("load_chain_state", n, "", obs)

\* Pflix::load_storage_proof.
ProofLoadRefusedAtLevel0(level) == level < 1
ProofLoadRefused(level) == level < 2

load_storage_proof(n) ==
    LET p == pfx[n] IN
    IF ProofLoadRefused(p.safe_mode_level)
    THEN /\ pfx' = pfx
         /\ ret' = Ret("load_storage_proof", n,
                       "Can not load storage proof when safe_mode_level < 2", NoObs)
    ELSE IF p.runtime_state = None
    THEN /\ pfx' = pfx
         /\ ret' = Ret("load_storage_proof", n, RuntimeNotInitialized, NoObs)
    ELSE /\ pfx' = [pfx EXCEPT ![n].runtime_state =
                        Some([Unwrap(p.runtime_state) EXCEPT !.proof_loaded = TRUE])]
         /\ ret' = Ret("load_storage_proof", n, "", NoObs)

\* The load_chain_state request: the guard first, then the state is decoded.
RpcLoadChainState(n, decodes, block, storage, can_load, registered, assume_ok) ==
    IF ~Admitted(n, "load_chain_state") THEN Refused(n, "load_chain_state")
    ELSE IF ~decodes
    THEN /\ ret' = Ret("load_chain_state", n, DecodeError, [block |-> block])
         /\ UNCHANGED << pfx, rng, net, hist, guard >>
    ELSE /\ load_chain_state(n, block, storage, can_load, registered,
                          assume_ok)
         /\ UNCHANGED << rng, net, hist, guard >>

RpcLoadStorageProof(n) ==
    IF Admitted(n, "load_storage_proof")
    THEN /\ load_storage_proof(n)
         /\ UNCHANGED << rng, net, hist, guard >>
    ELSE Refused(n, "load_storage_proof")

\* ------------------------------------------------- the other requests
\* A request whose handler asks for the guard first: r is what the handler
\* does to the instance once admitted, [p, err, obs].
Call(n, op, r) ==
    IF Admitted(n, op)
    THEN /\ pfx' = [pfx EXCEPT ![n] = r.p]
         /\ ret' = Ret(op, n, r.err, r.obs)
         /\ UNCHANGED << rng, net, hist, guard >>
    ELSE Refused(n, op)

Done(p, err, obs) == [p |-> p, err |-> err, obs |-> obs]

\* system.now_ms: the timestamp of the last block the system processed.
now_ms(p) ==
    IF p.runtime_state = None THEN 0
    ELSE timestamp_now(Unwrap(p.runtime_state).dispatched_at)

\* Pflix::get_info.
get_info(p) ==
    Done(p, "",
         [initialized |-> p.runtime_state # None,
          headernum |-> IF p.runtime_state = None THEN 0
                        ELSE Unwrap(p.runtime_state).next_header_number,
          blocknum |-> IF p.runtime_state = None THEN 0
                       ELSE Unwrap(p.runtime_state).next_block_number,
          dev_mode |-> p.dev_mode,
          safe_mode_level |-> p.safe_mode_level,
          current_block_time |->
              CASE p.safe_mode_level = 0 ->
                     IF p.system = None THEN 0 ELSE now_ms(p)
                [] p.safe_mode_level = 1 ->
                     IF p.runtime_state = None THEN 0
                     ELSE timestamp_now(Unwrap(p.runtime_state).storage_at)
                [] OTHER -> 0])

\* Pflix::stop (lines 1081-1087): the checkpoints are removed if asked
\* for, and std::process::abort() ends the process inside the handler: the
\* request gets no response and the node serves no request afterwards.
ProcessAborted == "aborted: std::process::abort"
stop(p, remove_checkpoints) ==
    Done([p EXCEPT !.stopped = TRUE,
                   !.checkpoint_at = IF remove_checkpoints THEN 0 ELSE @],
         ProcessAborted, NoObs)

\* Pflix::get_egress_messages: the messages pending since the last purge.
get_egress_messages(p) ==
    Done(p, "",
         [pending_since |-> IF p.runtime_state = None THEN 0
                            ELSE Unwrap(p.runtime_state).mq_purged_at])

\* The endpoints a caller sets; the last one encodes to more than
\* MAX_PAYLOAD_SIZE bytes.
TooLargeEndpoint == "endpoint_of_600_bytes"
Endpoints == {"endpoint_a", "endpoint_b", TooLargeEndpoint}

\* Pflix::sign_endpoint with sign_endpoint_payload.
sign_endpoint(p) ==
    IF p.system = None THEN Done(p, RuntimeNotInitialized, NoObs)
    ELSE IF p.endpoint = Some(TooLargeEndpoint)
    THEN Done(p, "Endpoints too large", NoObs)
    ELSE LET payload == [pubkey |-> Public(Unwrap(p.system).identity_key),
                         endpoint |-> p.endpoint,
                         signing_time |-> now_ms(p)]
             resp == [payload |-> Some(payload),
                      signature |-> Some([signer |-> Unwrap(p.system).identity_key,
                                          content |-> payload])]
         IN  Done([p EXCEPT !.signed_endpoint = Some(resp)], "", resp)

\* Pflix::set_endpoint.
set_endpoint(p, endpoint) == sign_endpoint([p EXCEPT !.endpoint = Some(endpoint)])

\* Pflix::get_endpoint_info.
get_endpoint_info(p) ==
    IF p.endpoint = None
    THEN Done(p, "", [payload |-> None, signature |-> None])
    ELSE IF p.signed_endpoint # None
    THEN Done(p, "", Unwrap(p.signed_endpoint))
    ELSE sign_endpoint(p)

\* Pflix::get_master_key_apply.
get_master_key_apply(p) ==
    IF p.system = None THEN Done(p, RuntimeNotInitialized, NoObs)
    ELSE LET payload == [pubkey |-> Public(Unwrap(p.system).identity_key),
                         ecdh_pubkey |-> Public(Unwrap(p.system).ecdh_key),
                         signing_time |-> now_ms(p)]
         IN  Done(p, "", [payload |-> payload,
                          signature |-> [signer |-> Unwrap(p.system).identity_key,
                                         content |-> payload]])

\* Pflix::take_checkpoint: saves the state and returns the synced block.
take_checkpoint(p, checkpoint_ok) ==
    IF p.runtime_state = None THEN Done(p, RuntimeNotInitialized, NoObs)
    ELSE IF ~checkpoint_ok THEN Done(p, "Failed to take checkpoint", NoObs)
    ELSE LET block == Unwrap(p.runtime_state).next_block_number - 1
         IN  Done([p EXCEPT !.checkpoint_at = block], "", [synced_to |-> block])

\* Pflix::update_runtime_info: changes the cached info, whose report no
\* longer covers it.
update_runtime_info(p, operator) ==
    IF p.runtime_info = None THEN p
    ELSE [p EXCEPT !.runtime_info =
              Some([Unwrap(p.runtime_info) EXCEPT !.operator = operator,
                                                  !.attestation = None])]

\* Lines 849-853: the cached report is dropped on a forced refresh, on a
\* new operator, and when it is older than MAX_ATTESTATION_AGE.
DropCachedUnlessForced(refresh_ra, reset_operator, expired) ==
    reset_operator \/ expired
DropCached(refresh_ra, reset_operator, expired) ==
    refresh_ra \/ reset_operator \/ expired

\* Line 856.
allow_attestation_always(validated_state, validated_identity_key, attestation_provider) ==
    TRUE
allow_attestation(validated_state, validated_identity_key, attestation_provider) ==
    validated_state /\ (validated_identity_key \/ attestation_provider = None)

\* Line 865: a report is created only when none is cached.
ReportMissingOrCached(attestation) == TRUE
ReportMissing(attestation) == attestation = None

\* What a get_runtime_info call was given and met, whether it called
\* create_attestation_report_on, and the response it returned.
RuntimeInfoObs(refresh_ra, operator, e) ==
    [refresh_ra |-> refresh_ra, operator |-> operator, env |-> e,
     ra_called |-> FALSE, response |-> None]

\* Pflix::get_runtime_info; e is what the call meets: whether the worker is
\* registered on chain, the synchronizer state is validated, the cached
\* report is older than MAX_ATTESTATION_AGE, a report can be created, and
\* the report created decodes.
get_runtime_info(p, refresh_ra, operator, e) ==
    LET obs == RuntimeInfoObs(refresh_ra, operator, e) IN
    IF ~p.trusted_sk /\ p.system = None
      THEN Done(p, RuntimeNotInitialized, obs)
    ELSE IF p.runtime_state = None
      THEN Done(p, RuntimeNotInitialized, obs)
    ELSE
    LET validated_identity_key == p.trusted_sk \/ e.registered
        reset_operator == operator # None
        p1 == IF reset_operator THEN update_runtime_info(p, operator) ELSE p
    IN  IF p1.runtime_info = None
        THEN Done(p1, "Uninitiated runtime info", obs)
        ELSE
        LET cached == Unwrap(p1.runtime_info)
            drop == /\ cached.attestation # None
                    /\ DropCached(refresh_ra, reset_operator, e.expired)
            kept == IF drop THEN [cached EXCEPT !.attestation = None] ELSE cached
            p2 == [p1 EXCEPT !.runtime_info = Some(kept)]
        IN  IF /\ allow_attestation(e.validated, validated_identity_key,
                                    p.attestation_provider)
               /\ ReportMissing(kept.attestation)
            THEN LET called == [obs EXCEPT !.ra_called = TRUE] IN
                 IF ~e.ra_ok
                 THEN Done(p2, "Failed to create attestation report", called)
                 ELSE IF ~e.report_decodes
                 THEN Done([p2 EXCEPT !.ra_reports = @ + 1], DecodeError, called)
                 ELSE LET report == [provider |-> p.attestation_provider,
                                     payload_hash |-> blake2_256(
                                         [pubkey |-> kept.pubkey,
                                          operator |-> kept.operator]),
                                     serial |-> p.ra_reports + 1]
                          resp == [kept EXCEPT !.attestation = Some(report)]
                      IN  Done([p2 EXCEPT !.runtime_info = Some(resp),
                                          !.ra_reports = @ + 1], "",
                               [called EXCEPT !.response = Some(resp)])
            ELSE Done(p2, "", [obs EXCEPT !.response = Some(kept)])

RuntimeInfoEnv == [registered |-> FALSE, validated |-> TRUE, expired |-> FALSE,
                   ra_ok |-> TRUE, report_decodes |-> TRUE]

\* The requests that carry no payload or a plain one, each as a caller
\* sends it in the ordinary case: no refresh and no operator, an endpoint
\* that can be signed, a checkpoint store that works.
PlainRequests ==
    {"get_info", "get_runtime_info", "get_egress_messages",
     "set_endpoint", "refresh_endpoint_signing_time", "get_endpoint_info",
     "get_master_key_apply", "take_checkpoint"}

Handle(p, op) ==
    CASE op = "get_info" -> get_info(p)
      [] op = "get_runtime_info" -> get_runtime_info(p, FALSE, None, RuntimeInfoEnv)
      [] op = "get_egress_messages" -> get_egress_messages(p)
      [] op = "set_endpoint" -> set_endpoint(p, "endpoint_a")
      [] op = "refresh_endpoint_signing_time" -> sign_endpoint(p)
      [] op = "get_endpoint_info" -> get_endpoint_info(p)
      [] op = "get_master_key_apply" -> get_master_key_apply(p)
      [] op = "take_checkpoint" -> take_checkpoint(p, TRUE)

PlainRequest(n) == \E op \in PlainRequests : Call(n, op, Handle(pfx[n], op))

\* The stop request, with and without the removal of the checkpoints.
Stop(n) ==
    \E remove_checkpoints \in BOOLEAN :
        Call(n, "stop", stop(pfx[n], remove_checkpoints))

\* ---- the endpoint requests
\* A node that is started, follows the chain for a few blocks and is given
\* endpoints, among them one that is too large to sign; the signed
\* endpoint is asked for and refreshed at any time.
MaxEndpointBlocks == 2

EndpointSyncHeader(n) ==
    /\ NextHeader(n) <= MaxEndpointBlocks
    /\ RpcSyncHeader(n, TRUE, Headers(NextHeader(n), 1), None)

EndpointDispatchBlocks(n) ==
    /\ NextBlock(n) <= MaxEndpointBlocks
    /\ HeaderSynced(n, NextBlock(n))
    /\ RpcDispatchBlocks(n, TRUE, Blocks(NextBlock(n), 1), NoCheckpointDue)

SetEndpoint(n) ==
    \E endpoint \in Endpoints :
        Call(n, "set_endpoint", set_endpoint(pfx[n], endpoint))

RefreshEndpointSigningTime(n) ==
    Call(n, "refresh_endpoint_signing_time", sign_endpoint(pfx[n]))

GetEndpointInfo(n) ==
    Call(n, "get_endpoint_info", get_endpoint_info(pfx[n]))

\* PflixSafeBox: a state-replacing operation begins and ends; while it is
\* in progress the instance is marked pending.
BeginStateReplace(n) ==
    /\ Running(n)
    /\ ~pfx[n].state_pending
    /\ pfx' = [pfx EXCEPT ![n].state_pending = TRUE]
    /\ ret' = Ret("begin_state_replace", n, "", NoObs)
    /\ UNCHANGED << rng, net, hist, guard >>

EndStateReplace(n) ==
    /\ Running(n)
    /\ pfx[n].state_pending
    /\ pfx' = [pfx EXCEPT ![n].state_pending = FALSE]
    /\ ret' = Ret("end_state_replace", n, "", NoObs)
    /\ UNCHANGED << rng, net, hist, guard >>

\* ------------------------------------------------ handover: the challenge
\* crate::generate_random_info: the next unused nonce.
generate_random_info == rng.nonce + 1

\* Pflix::get_worker_key_challenge: the challenge built from the node's
\* mode, the current block and a fresh nonce.
HandoverChallenge(n, p, block_number, now, nonce) ==
    [sgx_target_info |-> IF p.dev_mode THEN << >> ELSE EncodedTargetInfo(n),
     block_number |-> block_number, now |-> now,
     dev_mode |-> p.dev_mode, nonce |-> nonce]

\* Variant: a pending challenge is kept and the new one is not stored.
StoreChallengeIfEmpty(slot, challenge) == IF slot = None THEN Some(challenge) ELSE slot

\* Pflix::get_worker_key_challenge: the slot after the call holds the new
\* challenge, whatever it held before.
StoreChallenge(slot, challenge) == Some(challenge)

\* Pflix::verify_worker_key_challenge: the result of the comparison ...
verify_worker_key_challenge(slot, challenge) == slot = Some(challenge)

\* Variant: the comparison reads the slot without emptying it.
KeepChallenge(slot, challenge) == slot

\* Variant: the slot is emptied only by the challenge it holds.
TakeChallengeIfMatched(slot, challenge) ==
    IF slot = Some(challenge) THEN None ELSE slot

\* Pflix::verify_worker_key_challenge, the slot after the call: take()
\* leaves None, whatever challenge was presented.
TakeChallenge(slot, challenge) == None

\* handover_create_challenge
handover_create_challenge(n) ==
    LET p == pfx[n] IN
    IF p.runtime_state = None
    THEN /\ pfx' = pfx
         /\ ret' = Ret("handover_create_challenge", n, RuntimeNotInitialized, NoObs)
         /\ UNCHANGED << rng, net, hist >>
    ELSE LET cur == current_block(p)
             challenge == HandoverChallenge(n, p, cur.block, cur.now_ms, generate_random_info)
         IN  /\ pfx' = [pfx EXCEPT ![n].handover_last_challenge =
                            StoreChallenge(@, challenge)]
             /\ rng' = [rng EXCEPT !.nonce = @ + 1]
             /\ net' = [net EXCEPT !.challenges = @ \cup {challenge}]
             /\ hist' = [hist EXCEPT ![n].issued = @ + 1,
                                     ![n].last_issued = Some(challenge),
                                     ![n].checked = FALSE,
                                     ![n].accepted = 0]
             /\ ret' = Ret("handover_create_challenge", n, "", [challenge |-> challenge])

HandoverCreateChallenge(n) ==
    /\ rng.nonce < MaxIssue
    /\ IF Admitted(n, "handover_create_challenge")
       THEN handover_create_challenge(n) /\ UNCHANGED guard
       ELSE Refused(n, "handover_create_challenge")

\* --------------------------------------------------- handover: the server
\* Variant: only the Ias provider counts as SGX.
InSgxIasOnly(attestation_provider) == attestation_provider = Some("Ias")

\* handover_start lines 275-276
InSgx(attestation_provider) ==
    attestation_provider = Some("Ias") \/ attestation_provider = Some("Dcap")

\* handover_start lines 283, 306, 322, 392: the attestation checks run
AttestationInForce(dev_mode, in_sgx) == ~dev_mode /\ in_sgx

\* Variant: the window is one block wider.
ChallengeAgeOkWider(challenge_height, block_number) ==
    /\ challenge_height <= block_number
    /\ wrapping_sub(block_number, challenge_height) <= ChallengeMaxAge + 1

\* handover_start line 318, in u32 arithmetic
ChallengeAgeOk(challenge_height, block_number) ==
    /\ challenge_height <= block_number
    /\ wrapping_sub(block_number, challenge_height) <= ChallengeMaxAge

\* Variant: a build of the same date is not refused.
RollbackRefusedStrict(my_runtime_timestamp, req_runtime_timestamp) ==
    my_runtime_timestamp > req_runtime_timestamp

\* handover_start line 366: the handover is refused
RollbackRefused(my_runtime_timestamp, req_runtime_timestamp) ==
    my_runtime_timestamp >= req_runtime_timestamp

\* Variant: a key other than the sealed one is shared.
ShareOtherKey(runtime_data) == ForeignKey

\* handover_start line 382: the secret that is encrypted for the client
SecretToShare(runtime_data) == runtime_data.sk

\* ChallengeHandlerInfo
ChallengeHandlerInfo(challenge, sgx_local_report, ecdh_pubkey) ==
    [challenge |-> challenge, sgx_local_report |-> sgx_local_report,
     ecdh_pubkey |-> ecdh_pubkey]

\* EncryptedWorkerKey (lines 386-389)
EncryptedWorkerKey(genesis_block_hash, dev_mode, enc, iv) ==
    [genesis_block_hash |-> genesis_block_hash, dev_mode |-> dev_mode,
     encrypted_key |-> [ecdh_pubkey |-> enc.ecdh_pubkey,
                        encrypted_key |-> enc.encrypted_key, iv |-> iv]]

\* The first of the five checks of handover_start that fails, in the order
\* of lines 279-371: the client's RA report, the challenge, the client's LA
\* report, the age of the challenge, the launch dates ("" if none fails).
FirstFailureAgeBeforeLa(ra_err, verified, la_err, age_ok, ts_err) ==
    IF ra_err # "" THEN ra_err
    ELSE IF ~verified THEN "Invalid challenge"
    ELSE IF ~age_ok THEN "Outdated challenge"
    ELSE IF la_err # "" THEN la_err
    ELSE ts_err
FirstFailure(ra_err, verified, la_err, age_ok, ts_err) ==
    IF ra_err # "" THEN ra_err
    ELSE IF ~verified THEN "Invalid challenge"
    ELSE IF la_err # "" THEN la_err
    ELSE IF ~age_ok THEN "Outdated challenge"
    ELSE ts_err

\* The run of handover_start on request req at node n: the error it returns
\* ("" for Ok), how far it got, and what it returns.  env: none_ok (validate
\* accepts an absent report), la_ok (the server's own local report can be
\* read), ra_ok (the server's attestation report can be created).
StartRun(n, req, env) ==
    LET p == pfx[n]
        attestation_provider == p.attestation_provider
        dev_mode == p.dev_mode
        in_sgx == InSgx(attestation_provider)
        in_force == AttestationInForce(dev_mode, in_sgx)
        cur == current_block(p)
        challenge_handler == req.handler
        payload_hash == blake2_256(challenge_handler)
        \* 1. the client's RA report
        ra_err ==
            IF ~in_force THEN ""
            ELSE IF req.attestation = None THEN "Client attestation not found"
            ELSE IF ~Unwrap(req.attestation).decodes THEN "Decode client attestation failed"
            ELSE IF ~validate_attestation_report(Unwrap(req.attestation).report,
                                                 payload_hash, env.none_ok)
                 THEN "Invalid client RA report"
            ELSE ""
        attestation == IF in_force /\ ra_err = "" THEN Unwrap(req.attestation).report ELSE None
        \* 2. the challenge
        challenge == challenge_handler.challenge
        verified == verify_worker_key_challenge(p.handover_last_challenge, challenge)
        \* 3. the client's LA report
        la_err ==
            IF ~in_force THEN ""
            ELSE IF ~LocalReportDecodes(challenge_handler.sgx_local_report)
                 THEN "Invalid client LA report"
            ELSE IF ~LocalReportVerifies(n, challenge_handler.sgx_local_report)
                 THEN "No remote handover"
            ELSE ""
        \* 4. the challenge age
        age_ok == ChallengeAgeOk(challenge.block_number, cur.block)
        \* 5. the launch dates
        storage == Unwrap(p.runtime_state).chain_storage
        my_runtime_timestamp == get_pflix_bin_added_at(storage, Measurement(n))
        req_runtime_timestamp ==
            get_pflix_bin_added_at(storage, Unwrap(attestation).measurement)
        ts_err ==
            IF ~in_force THEN ""
            ELSE IF ~env.la_ok THEN "Cannot read server pflix info"
            ELSE IF my_runtime_timestamp = None THEN "Server pflix not allowed on chain"
            ELSE IF attestation = None THEN "Client attestation not found"
            ELSE IF req_runtime_timestamp = None THEN "Client pflix not allowed on chain"
            ELSE IF RollbackRefused(Unwrap(my_runtime_timestamp), Unwrap(req_runtime_timestamp))
                 THEN "Same pflix version or rollback ,No local handover provided"
            ELSE ""
        \* the key
        iv == rng.iv + 1
        runtime_data == Unwrap(p.sealed)
        enc == encrypt_secret_to(runtime_data.sk, challenge_handler.ecdh_pubkey,
                                 SecretToShare(runtime_data), iv)
        encrypted_worker_key ==
            EncryptedWorkerKey(Unwrap(p.runtime_state).genesis_block_hash, dev_mode, enc, iv)
        worker_key_hash == blake2_256(encrypted_worker_key)
        key_attestation ==
            IF in_force
            THEN Some(PbAttestation(TRUE, Some(RaReport(Unwrap(attestation_provider),
                                           worker_key_hash, Measurement(n), TRUE))))
            ELSE None
        \* the first failure, in the order of the code
        gate_err == FirstFailure(ra_err, verified, la_err, age_ok, ts_err)
        err == IF p.runtime_state = None THEN RuntimeNotInitialized
               ELSE IF ~req.decodes THEN "Decode challenge handler failed"
               ELSE IF gate_err # "" THEN gate_err
               ELSE IF p.sealed = None THEN "Persistent runtime data not found"
               ELSE IF in_force /\ ~env.ra_ok THEN "Failed to create attestation report"
               ELSE ""
        \* line 375 is reached, and the IV drawn, once every gate has passed
        iv_drawn == p.runtime_state # None /\ req.decodes /\ gate_err = ""
        pre == p.runtime_state = None \/ ~req.decodes \/ ra_err # ""
        reached_challenge == ~pre
        reached_age == reached_challenge /\ verified /\ la_err = ""
    IN  [err |-> err,
         in_force |-> in_force,
         iv_drawn |-> iv_drawn,
         \* whether each check holds for this request, taken by itself
         gates |-> IF p.runtime_state = None \/ ~req.decodes THEN None
                   ELSE Some([ra |-> ra_err = "", challenge |-> verified,
                              la |-> la_err = "", age |-> age_ok,
                              rollback |-> ts_err = ""]),
         reached_challenge |-> reached_challenge,
         verified |-> reached_challenge /\ verified,
         reached_age |-> reached_age,
         challenge |-> IF reached_challenge THEN Some(challenge) ELSE None,
         challenge_height |-> IF reached_age THEN challenge.block_number ELSE 0,
         block_number |-> IF reached_age THEN cur.block ELSE 0,
         ra_checked |-> in_force /\ reached_challenge,
         la_checked |-> in_force /\ reached_age,
         ts_checked |-> in_force /\ reached_age /\ age_ok /\ ts_err = "",
         handler |-> IF err = "" THEN Some(challenge_handler) ELSE None,
         attestation |-> IF err = "" THEN attestation ELSE None,
         key |-> IF err = ""
                 THEN Some([encrypted_worker_key |-> encrypted_worker_key,
                            attestation |-> key_attestation, decodes |-> TRUE])
                 ELSE None,
         secret |-> IF err = "" THEN Some(runtime_data.sk) ELSE None]

Min(a, b) == IF a <= b THEN a ELSE b

\* Outcomes of the calls handover_start makes into the platform.
EnvOk == [none_ok |-> FALSE, la_ok |-> TRUE, ra_ok |-> TRUE]
StartEnvs(n, req) ==
    {EnvOk}
      \cup (IF req.decodes /\ req.attestation = Some(PbAttestation(TRUE, None))
            THEN {[EnvOk EXCEPT !.none_ok = TRUE]} ELSE {})
      \cup (IF StartRun(n, req, EnvOk).err = "" /\ StartRun(n, req, EnvOk).in_force
            THEN {[EnvOk EXCEPT !.la_ok = FALSE], [EnvOk EXCEPT !.ra_ok = FALSE]}
            ELSE {})

\* handover_start: the state after the run.  The last-issued challenge is
\* taken as soon as the run reaches verify_worker_key_challenge, and the
\* IV is drawn (line 375) as soon as every gate has passed, whether or not
\* the key is then released (lines 376-393 can still fail).  The outcome
\* of every single check is kept with the call only if observed.
handover_start_observed(n, req, env, observed) ==
    \E full \in {StartRun(n, req, env)} :
    LET run == IF observed THEN full ELSE [full EXCEPT !.gates = None]
        ok == full.err = ""
    IN  /\ pfx' = [pfx EXCEPT ![n].handover_last_challenge =
                       IF full.reached_challenge
                       THEN TakeChallenge(@, req.handler.challenge) ELSE @]
        /\ rng' = IF full.iv_drawn THEN [rng EXCEPT !.iv = @ + 1] ELSE rng
        /\ net' = IF ok
                  THEN [net EXCEPT !.keys = @ \cup
                          {[from |-> n, secret |-> Unwrap(full.secret),
                            msg |-> Unwrap(full.key)]}]
                  ELSE net
        /\ hist' = [hist EXCEPT
                      ![n].checked = @ \/ full.reached_challenge,
                      ![n].accepted = IF full.verified THEN Min(@ + 1, MaxIssue + 1) ELSE @,
                      ![n].released = IF ok THEN @ + 1 ELSE @]
        /\ ret' = Ret("handover_start", n, full.err, run)

handover_start(n, req, env) == handover_start_observed(n, req, env, FALSE)

\* What a caller may put into a HandoverChallengeResponse.
BogusChallenge ==
    [sgx_target_info |-> << >>, block_number |-> 0, now |-> 0,
     dev_mode |-> TRUE, nonce |-> 0]
BogusHandler == ChallengeHandlerInfo(BogusChallenge, << >>, Public(OutsiderKey))
ChallengesOffered == net.challenges \cup {BogusChallenge}
LocalReportsOffered(n) ==
    {<< >>,
     << [la_from |-> "garbage", la_target |-> n] >>,
     << [la_from |-> "remote", la_target |-> n] >>,
     << [la_from |-> "C", la_target |-> n] >>}
PubkeysOffered == {Public(EphKey(i)) : i \in 1..rng.eph} \cup {Public(OutsiderKey)}
ReportsOffered(data) ==
    {RaReport("Ias", blake2_256(data), m, TRUE) : m \in Measurements}
      \cup {RaReport("Ias", blake2_256(BogusHandler), "mrC", TRUE),
            RaReport("Dcap", blake2_256(data), "mrC", TRUE),
            RaReport("Ias", blake2_256(data), "mrC", FALSE)}
AttestationsOffered(data) ==
    {None, Some(PbAttestation(FALSE, None)), Some(PbAttestation(TRUE, None))}
      \cup {Some(PbAttestation(TRUE, Some(r))) : r \in ReportsOffered(data)}
UndecodableResponse == [decodes |-> FALSE, handler |-> BogusHandler, attestation |-> None]

\* What an honest client in the server's mode returns for handler data h.
GoodLocalReport(n) == << [la_from |-> "C", la_target |-> n] >>
GoodAttestation(h) ==
    Some(PbAttestation(TRUE, Some(RaReport("Ias", blake2_256(h), "mrC", TRUE))))

\* The requests sent to handover_start: an undecodable one and, for every
\* challenge and public key, every local report beside a good attestation
\* and every attestation beside a good local report.
StartRequests(n) ==
    {UndecodableResponse}
      \cup UNION {
            LET good == ChallengeHandlerInfo(c, GoodLocalReport(n), pk)
            IN  {[decodes |-> TRUE, handler |-> good, attestation |-> a] :
                    a \in AttestationsOffered(good)}
                  \cup {[decodes |-> TRUE,
                         handler |-> ChallengeHandlerInfo(c, la, pk),
                         attestation |-> GoodAttestation(ChallengeHandlerInfo(c, la, pk))] :
                        la \in LocalReportsOffered(n)} :
            c \in ChallengesOffered, pk \in PubkeysOffered}

\* handover_start on any request a caller can send.
HandoverStart(n) ==
    /\ rng.iv < MaxIssue
    /\ IF Admitted(n, "handover_start")
       THEN /\ \E req \in StartRequests(n) : \E env \in StartEnvs(n, req) :
                  handover_start(n, req, env)
            /\ UNCHANGED guard
       ELSE Refused(n, "handover_start")

\* --------------------------------------------------- handover: the client
\* crate::new_sr25519_key + derive_ecdh_key: the next unused ephemeral key.
new_handover_ecdh_key == EphKey(rng.eph + 1)

\* handover_accept_challenge lines 442-450: the provider named by ra_type.
AcceptProvider(ra_type) ==
    IF IsSome(ra_type) /\ Unwrap(ra_type) = "dcap" THEN "Dcap" ELSE "Ias"
RaTypes == {None, Some("dcap"), Some("epid")}

\* Line 419: the new ephemeral key takes the place of whatever key the
\* node held.
StoredKeyKeptIfAny(held, handover_ecdh_key) ==
    IF held # None THEN held ELSE Some(handover_ecdh_key)
StoredKey(held, handover_ecdh_key) == Some(handover_ecdh_key)

\* The run of handover_accept_challenge on request req at node n.  env:
\* la_ok (the local report can be created), ra_ok (the attestation report
\* can be created), ra_type (args.ra_type).
AcceptRun(n, req, env) ==
    LET handover_ecdh_key == new_handover_ecdh_key
        ecdh_pubkey == Public(handover_ecdh_key)
        challenge == req.challenge
        dev_mode == challenge.dev_mode
        la_err ==
            IF dev_mode THEN ""
            ELSE IF ~TargetInfoDecodes(challenge.sgx_target_info)
                 THEN "Invalid client sgx target info"
            ELSE IF ~env.la_ok THEN "Failed to create client LA report"
            ELSE ""
        sgx_local_report ==
            IF dev_mode THEN << >> ELSE EncodedLocalReport(n, challenge.sgx_target_info)
        challenge_handler == ChallengeHandlerInfo(challenge, sgx_local_report, ecdh_pubkey)
        handler_hash == blake2_256(challenge_handler)
        attestation ==
            IF dev_mode THEN None
            ELSE Some(PbAttestation(TRUE, Some(RaReport(AcceptProvider(env.ra_type),
                                          handler_hash, Measurement(n), TRUE))))
        err == IF ~req.decodes THEN "Decode challenge failed"
               ELSE IF la_err # "" THEN la_err
               ELSE IF ~dev_mode /\ ~env.ra_ok THEN "Failed to create attestation report"
               ELSE ""
    IN  [err |-> err,
         \* line 419: stored before the request is looked at
         stored_key |-> StoredKey(pfx[n].handover_ecdh_key, handover_ecdh_key),
         la_produced |-> err = "" /\ ~dev_mode,
         ra_produced |-> err = "" /\ ~dev_mode,
         response |-> IF err = ""
                      THEN Some([decodes |-> TRUE, handler |-> challenge_handler,
                                 attestation |-> attestation])
                      ELSE None]

\* handover_accept_challenge: the state after the run.
handover_accept_challenge(n, req, env) ==
    LET run == AcceptRun(n, req, env)
    IN  /\ pfx' = [pfx EXCEPT ![n].handover_ecdh_key = run.stored_key]
        /\ rng' = [rng EXCEPT !.eph = @ + 1]
        /\ net' = IF run.err = ""
                  THEN [net EXCEPT !.responses = @ \cup {Unwrap(run.response)}]
                  ELSE net
        /\ hist' = [hist EXCEPT ![n].received = FALSE]
        /\ ret' = Ret("handover_accept_challenge", n, run.err, run)

\* Variant: the ephemeral key survives a successful receive.
ClearRuntimeInfoOnly(p) == [p EXCEPT !.runtime_info = None]

\* handover_receive lines 514-515: the fields cleared once the key is saved.
ClearHandover(p) == [p EXCEPT !.runtime_info = None, !.handover_ecdh_key = None]

\* The run of handover_receive on request req at node n.  env: none_ok
\* (validate accepts an absent report), seal_ok (save_runtime_data succeeds).
ReceiveRun(n, req, env) ==
    LET p == pfx[n]
        encrypted_worker_key == req.encrypted_worker_key
        dev_mode == encrypted_worker_key.dev_mode
        worker_key_hash == blake2_256(encrypted_worker_key)
        ra_err ==
            IF dev_mode THEN ""
            ELSE IF req.attestation = None THEN "Server attestation not found"
            ELSE IF ~Unwrap(req.attestation).decodes THEN "Decode server attestation failed"
            ELSE IF ~validate_attestation_report(Unwrap(req.attestation).report,
                                                 worker_key_hash, env.none_ok)
                 THEN "Invalid server RA report"
            ELSE ""
        encrypted_key == encrypted_worker_key.encrypted_key
        secret == decrypt_secret_from(Unwrap(p.handover_ecdh_key),
                                      encrypted_key.ecdh_pubkey,
                                      encrypted_key.encrypted_key, encrypted_key.iv)
        err == IF ~req.decodes THEN "Decode worker key failed"
               ELSE IF ra_err # "" THEN ra_err
               ELSE IF p.handover_ecdh_key = None THEN "Handover ecdhkey not initialized"
               ELSE IF secret = None THEN "Decrypt secret failed"
               ELSE IF ~env.seal_ok THEN "Save runtime data failed"
               ELSE ""
    IN  [err |-> err,
         \* the agreed key the worker key of the request is sealed under
         sealed_under |-> encrypted_key.encrypted_key.key,
         ra_validated |-> req.decodes /\ ~dev_mode /\ ra_err = "",
         saved |-> IF err = ""
                   THEN Some(PersistentRuntimeData(encrypted_worker_key.genesis_block_hash,
                                                   Unwrap(secret), FALSE, dev_mode))
                   ELSE None]

\* handover_receive: the state after the run.
handover_receive(n, req, env) ==
    LET run == ReceiveRun(n, req, env)
    IN  /\ pfx' = [pfx EXCEPT ![n] =
                       IF run.err = ""
                       THEN ClearHandover([@ EXCEPT !.sealed = run.saved])
                       ELSE @]
        /\ hist' = [hist EXCEPT ![n].received = @ \/ run.err = ""]
        /\ ret' = Ret("handover_receive", n, run.err, run)
        /\ UNCHANGED << rng, net >>

\* What a caller may put into a HandoverChallenge.
UndecodableChallenge == [decodes |-> FALSE, challenge |-> BogusChallenge]
TargetInfosOffered == {<< >>, EncodedTargetInfo("S"), << [ti |-> "garbage"] >>}
AcceptRequests ==
    {UndecodableChallenge, [decodes |-> TRUE, challenge |-> BogusChallenge]}
      \cup {[decodes |-> TRUE,
             challenge |-> [BogusChallenge EXCEPT !.sgx_target_info = ti,
                                                  !.dev_mode = FALSE]] :
            ti \in TargetInfosOffered}

\* Outcomes of the calls handover_accept_challenge makes into the platform.
AcceptEnvOk(ra_type) == [la_ok |-> TRUE, ra_ok |-> TRUE, ra_type |-> ra_type]
AcceptEnvs(n, req) ==
    {AcceptEnvOk(None)}
      \cup (IF AcceptRun(n, req, AcceptEnvOk(None)).ra_produced
            THEN {[AcceptEnvOk(None) EXCEPT !.la_ok = FALSE],
                  [AcceptEnvOk(None) EXCEPT !.ra_ok = FALSE]}
            ELSE {})

\* handover_accept_challenge on any request a caller can send.
HandoverAcceptChallenge(n) ==
    /\ rng.eph < MaxAccept
    /\ IF Admitted(n, "handover_accept_challenge")
       THEN /\ \E req \in AcceptRequests : \E env \in AcceptEnvs(n, req) :
                  handover_accept_challenge(n, req, env)
            /\ UNCHANGED guard
       ELSE Refused(n, "handover_accept_challenge")

\* What a caller may put into a HandoverWorkerKey: a key message built by
\* sender_sk for public key pk, carrying secret, with attestation att.
KeyMessage(dev_mode, sender_sk, pk, secret, iv_inner, iv_outer, att) ==
    [encrypted_worker_key |->
         EncryptedWorkerKey(GenesisHash, dev_mode,
                            encrypt_secret_to(sender_sk, pk, secret, iv_inner), iv_outer),
     attestation |-> att, decodes |-> TRUE]
BogusWorkerKey ==
    EncryptedWorkerKey(GenesisHash, TRUE,
                       encrypt_secret_to(ForeignKey, Public(OutsiderKey), ForeignKey, 0), 0)
KeyAttestationsOffered(ewk) ==
    {None, Some(PbAttestation(FALSE, None)), Some(PbAttestation(TRUE, None)),
     Some(PbAttestation(TRUE, Some(RaReport("Ias", blake2_256(ewk), "mrB", TRUE)))),
     Some(PbAttestation(TRUE, Some(RaReport("Ias", blake2_256(BogusWorkerKey), "mrB", TRUE)))),
     Some(PbAttestation(TRUE, Some(RaReport("Ias", blake2_256(ewk), "mrB", FALSE))))}
GoodKeyAttestation(ewk) ==
    Some(PbAttestation(TRUE, Some(RaReport("Ias", blake2_256(ewk), "mrB", TRUE))))
WithGoodAttestation(m) ==
    [m EXCEPT !.attestation = GoodKeyAttestation(m.encrypted_worker_key)]
WellFormedKey(dev_mode, pk) == KeyMessage(dev_mode, "sk_S", pk, "sk_S", 1, 1, None)
EphemeralPubkeys == {Public(EphKey(i)) : i \in 1..MaxAccept}
UndecodableWorkerKey ==
    [encrypted_worker_key |-> BogusWorkerKey, attestation |-> None, decodes |-> FALSE]

\* The requests sent to handover_receive: an undecodable one and, for each
\* ephemeral public key handed out so far, every attestation in either
\* mode beside a well-formed ciphertext, and every malformed ciphertext
\* beside a good attestation.
ReceiveRequests ==
    {UndecodableWorkerKey}
      \cup UNION {
            {[WellFormedKey(d, pk) EXCEPT !.attestation = a] :
                 a \in KeyAttestationsOffered(WellFormedKey(d, pk).encrypted_worker_key)} :
            d \in BOOLEAN, pk \in EphemeralPubkeys}
      \cup UNION {
            {WithGoodAttestation(KeyMessage(FALSE, ForeignKey, pk, ForeignKey, 1, 1, None)),
             WithGoodAttestation(KeyMessage(FALSE, "sk_S", pk, "sk_S", 1, 2, None))} :
            pk \in EphemeralPubkeys}
      \cup {WithGoodAttestation(WellFormedKey(FALSE, Public(OutsiderKey)))}

\* Outcomes of the calls handover_receive makes into the platform.
ReceiveEnvOk == [none_ok |-> FALSE, seal_ok |-> TRUE]
ReceiveEnvs(n, req) ==
    {ReceiveEnvOk}
      \cup (IF req.decodes /\ req.attestation = Some(PbAttestation(TRUE, None))
            THEN {[ReceiveEnvOk EXCEPT !.none_ok = TRUE]} ELSE {})
      \cup (IF ReceiveRun(n, req, ReceiveEnvOk).err = ""
            THEN {[ReceiveEnvOk EXCEPT !.seal_ok = FALSE]} ELSE {})

\* handover_receive on any request a caller can send.
HandoverReceive(n) ==
    IF Admitted(n, "handover_receive")
    THEN /\ \E req \in ReceiveRequests : \E env \in ReceiveEnvs(n, req) :
               handover_receive(n, req, env)
         /\ UNCHANGED guard
    ELSE Refused(n, "handover_receive")

\* ---------------------------------------------------------- specifications
\* A state of block 1 that can be loaded.
LoadFirstChainState(n) ==
    RpcLoadChainState(n, TRUE, 1, [bins |-> RegistryAll], TRUE, FALSE, TRUE)

\* The same offered to a node that has applied no block yet.
LoadChainStateAtStart(n) ==
    /\ NextBlock(n) = 1
    /\ LoadFirstChainState(n)

\* The same offered to a node that is further on: it brings the current
\* block back to block 1.
LoadEarlierChainState(n) ==
    /\ NextBlock(n) > 2
    /\ pfx[n].handover_last_challenge # None
    /\ LoadFirstChainState(n)

\* The handover server S against every caller.
NextServer ==
    \/ InitRuntime("S")
    \/ SyncHeader("S")
    \/ DispatchBlocks("S")
    \/ HandoverCreateChallenge("S")
    \/ HandoverStart("S")

SpecServer == Init /\ [][NextServer]_vars

\* handover_start on the requests of clients that answer a challenge the
\* server has issued, the latest or an earlier one, as the protocol says.
ClientRequests(n) ==
    {[decodes |-> TRUE,
      handler |-> ChallengeHandlerInfo(c, GoodLocalReport(n), Public(OutsiderKey)),
      attestation |-> GoodAttestation(
          ChallengeHandlerInfo(c, GoodLocalReport(n), Public(OutsiderKey)))] :
        c \in net.challenges}

HandoverStartByClient(n) ==
    /\ rng.iv < MaxIssue
    /\ IF Admitted(n, "handover_start")
       THEN /\ \E req \in ClientRequests(n) : handover_start(n, req, EnvOk)
            /\ UNCHANGED guard
       ELSE Refused(n, "handover_start")

\* init_runtime in the two modes handover_start tells apart: dev mode, and
\* the attestation checks in force.
ModeArgs ==
    {InitArgs([bins |-> RegistryAll], Some(DebugKey), None),
     InitArgs([bins |-> RegistryAll], None, Some("Ias"))}

InitRuntimeInMode(n) ==
    IF Admitted(n, "init_runtime")
    THEN /\ \E a \in ModeArgs :
               init_runtime(n, a.header_root, a.genesis_state, a.operator,
                            a.debug_set_key,
                            a.provider, a.quote_ok)
         /\ UNCHANGED << rng, net, hist, guard >>
    ELSE Refused(n, "init_runtime")

\* The handover server against its clients while chain states are loaded
\* too, so that the current block moves back as well as on.
NextChallengeAge ==
    \/ InitRuntimeInMode("S")
    \/ SyncHeader("S")
    \/ DispatchBlocks("S")
    \/ LoadEarlierChainState("S")
    \/ HandoverCreateChallenge("S")
    \/ HandoverStartByClient("S")

SpecChallengeAge == Init /\ [][NextChallengeAge]_vars

\* The handover server with attestation in force or not, its own build on
\* the chain or not, and every single check of handover_start observed.
InitRuntimeSgx(n) ==
    IF Admitted(n, "init_runtime")
    THEN /\ \E a \in {InitArgs(g, None, Some("Ias")) : g \in GenesisStates}
                         \cup {DefaultInitArgs} :
               init_runtime(n, a.header_root, a.genesis_state, a.operator,
                            a.debug_set_key,
                            a.provider, a.quote_ok)
         /\ UNCHANGED << rng, net, hist, guard >>
    ELSE Refused(n, "init_runtime")

HandoverStartObserved(n) ==
    /\ rng.iv < MaxIssue
    /\ IF Admitted(n, "handover_start")
       THEN /\ \E req \in StartRequests(n) : \E env \in StartEnvs(n, req) :
                  handover_start_observed(n, req, env, TRUE)
            /\ UNCHANGED guard
       ELSE Refused(n, "handover_start")

NextGates ==
    \/ InitRuntimeSgx("S")
    \/ SyncHeader("S")
    \/ DispatchBlocks("S")
    \/ HandoverCreateChallenge("S")
    \/ HandoverStartObserved("S")

SpecGates == Init /\ [][NextGates]_vars

\* A client and everything a caller can send to it.
NextClient ==
    \/ InitRuntime("C")
    \/ HandoverAcceptChallenge("C")
    \/ HandoverReceive("C")

SpecClient == Init /\ [][NextClient]_vars

\* The two nodes of a handover, each message delivered as it was sent.
RelayAcceptChallenge ==
    /\ rng.eph < MaxAccept
    /\ Admitted("C", "handover_accept_challenge")
    /\ \E c \in net.challenges : \E t \in RaTypes :
          handover_accept_challenge("C", [decodes |-> TRUE, challenge |-> c],
                                    AcceptEnvOk(t))
    /\ UNCHANGED guard
RelayStart ==
    /\ rng.iv < MaxIssue
    /\ Admitted("S", "handover_start")
    /\ \E r \in net.responses : handover_start("S", r, EnvOk)
    /\ UNCHANGED guard
RelayReceive ==
    /\ Admitted("C", "handover_receive")
    /\ \E k \in net.keys : handover_receive("C", k.msg, ReceiveEnvOk)
    /\ UNCHANGED guard

NextRoundTrip ==
    \/ InitRuntime("S")
    \/ HandoverCreateChallenge("S")
    \/ RelayAcceptChallenge
    \/ RelayStart
    \/ RelayReceive

SpecRoundTrip == Init /\ [][NextRoundTrip]_vars

\* The synchronisation pipeline of one node under every safe-mode level.
\* A node in safe mode cannot run init_runtime, so its runtime, if it has
\* one, was restored from a checkpoint taken right after init_runtime.
Started(safe_mode_level, enable_checkpoint, restored) ==
    LET new == [PflixNew EXCEPT !.safe_mode_level = safe_mode_level,
                                !.enable_checkpoint = enable_checkpoint]
        a == DefaultInitArgs
    IN  IF restored
        THEN init_runtime_on("S", new, a.header_root, a.genesis_state, a.operator,
                             a.debug_set_key, a.provider, a.quote_ok).p
        ELSE new

SafeModeLevels == 0 .. MaxSafeModeLevel

InitSync ==
    /\ \E l \in SafeModeLevels, c \in BOOLEAN, r \in BOOLEAN :
          /\ r => l > 0
          /\ pfx = [n \in Nodes |-> IF n = "S" THEN Started(l, c, r) ELSE PflixNew]
    /\ rng = [nonce |-> 0, eph |-> 0, iv |-> 0]
    /\ net = [challenges |-> {}, responses |-> {}, keys |-> {}]
    /\ hist = [n \in Nodes |-> HistNew]
    /\ ret = Ret("new", "S", "", NoObs)
    /\ guard = GuardNew

InitRuntimeDefault(n) ==
    IF Admitted(n, "init_runtime")
    THEN /\ LET a == DefaultInitArgs
            IN  init_runtime(n, a.header_root, a.genesis_state, a.operator,
                            a.debug_set_key,
                             a.provider, a.quote_ok)
         /\ UNCHANGED << rng, net, hist, guard >>
    ELSE Refused(n, "init_runtime")

\* Header batches of one or two headers that start before, at or after the
\* next header, and a request that does not decode.
SyncAnyHeader(n) ==
    \/ \E first \in 1 .. MaxSync, k \in 1 .. 2 :
          /\ first + k - 1 <= MaxSync
          /\ first \in NextHeader(n) - 1 .. NextHeader(n) + 1
          /\ RpcSyncHeader(n, TRUE, Headers(first, k), None)
    \/ RpcSyncHeader(n, FALSE, << >>, None)

\* A batch in which block number bad declares a wrong state root.
Tampered(blocks, bad) ==
    [i \in 1 .. Len(blocks) |->
        [blocks[i] EXCEPT !.root_ok = (blocks[i].number # bad)]]

\* The number of turns of the loop of dispatch_blocks(blocks) on node n
\* that reach maybe_take_checkpoint: the clock and the checkpoint store are
\* consulted in these turns and in no other.
GateTurns(n, blocks) ==
    IF pfx[n].runtime_state = None THEN 0
    ELSE LET c == counters(Unwrap(pfx[n].runtime_state))
             retained == SelectSeq(blocks, LAMBDA b : BlockRetained(b, c))
         IN  DispatchLoop(retained, 1, Len(retained), NoCheckpointDue,
                          [p |-> pfx[n], turn |-> 1,
                           obs |-> Offered(blocks), err |-> ""]
                         ).obs.checkpoint_calls

\* Block batches of up to MaxBatch blocks, starting anywhere, sound ones
\* and ones with a tampered block, with every course of the clock and of
\* the checkpoint store over the turns that consult them, and a request
\* that does not decode.
DispatchAny(n) ==
    \/ \E first \in 1 .. MaxSync, k \in 0 .. MaxBatch :
          /\ first + k - 1 <= MaxSync
          /\ k = 0 => first = 1
          /\ HeaderSynced(n, first + k - 1)
          /\ \/ \E env \in CheckpointEnvs(GateTurns(n, Blocks(first, k))) :
                   RpcDispatchBlocks(n, TRUE, Blocks(first, k), env)
             \/ \E bad \in first .. first + k - 1 :
                   \E env \in CheckpointEnvs(
                                 GateTurns(n, Tampered(Blocks(first, k), bad))) :
                      RpcDispatchBlocks(n, TRUE,
                                        Tampered(Blocks(first, k), bad), env)
    \/ RpcDispatchBlocks(n, FALSE, << >>, NoCheckpointDue)

LoadChainState(n) ==
    \/ \E block \in 0 .. MaxSync - 1, can_load \in BOOLEAN, registered \in BOOLEAN,
          assume_ok \in BOOLEAN, storage \in GenesisStates :
          /\ (~can_load \/ registered) => block = 1
          /\ (~can_load \/ registered \/ block = 0) =>
                assume_ok /\ storage = [bins |-> RegistryAll]
          /\ RpcLoadChainState(n, TRUE, block, storage, can_load, registered,
                               assume_ok)
    \/ RpcLoadChainState(n, FALSE, 1, [bins |-> RegistryAll], TRUE, FALSE, TRUE)

LoadStorageProof(n) == RpcLoadStorageProof(n)

NextSync ==
    \/ InitRuntimeDefault("S")
    \/ SyncAnyHeader("S")
    \/ DispatchAny("S")
    \/ LoadChainState("S")
    \/ LoadStorageProof("S")

SpecSync == InitSync /\ [][NextSync]_vars

NextEndpoint ==
    \/ InitRuntimeDefault("S")
    \/ EndpointSyncHeader("S")
    \/ EndpointDispatchBlocks("S")
    \/ SetEndpoint("S")
    \/ RefreshEndpointSigningTime("S")
    \/ GetEndpointInfo("S")

SpecEndpoint == Init /\ [][NextEndpoint]_vars

\* ---- dispatch_blocks over the positions of the synchronizer
\* counters() hands dispatch_blocks two u32 numbers.  The node starts with
\* its runtime as init_runtime leaves it; headers are synced one by one,
\* batches are dispatched in a build with or without overflow checks, and
\* chain states are loaded at any of the first blocks, block 0 included
\* and blocks behind the counters too.
MaxCounter == 2

InitCounters ==
    /\ pfx = [n \in Nodes |-> IF n = "S" THEN Started(0, FALSE, TRUE)
                                         ELSE PflixNew]
    /\ rng = [nonce |-> 0, eph |-> 0, iv |-> 0]
    /\ net = [challenges |-> {}, responses |-> {}, keys |-> {}]
    /\ hist = [n \in Nodes |-> HistNew]
    /\ ret = Ret("new", "S", "", NoObs)
    /\ guard = GuardNew

\* One header more.
CountersSyncHeader(n) ==
    /\ NextHeader(n) <= MaxCounter + 1
    /\ RpcSyncHeader(n, TRUE, Headers(NextHeader(n), 1), None)

\* Batches of up to MaxBatch blocks, empty ones too, that start at any
\* block number from 0 on, in a build with or without overflow checks.
CountersDispatch(n) ==
    \E first \in 0 .. MaxCounter + 1, k \in 0 .. MaxBatch,
       overflow_checks \in BOOLEAN :
       /\ k = 0 => first = 0
       /\ first + k - 1 <= MaxCounter + 1
       /\ HeaderSynced(n, first + k - 1)
       /\ IF Admitted(n, "dispatch_blocks")
          THEN /\ dispatch_blocks_built(n, Blocks(first, k), NoCheckpointDue,
                                        overflow_checks)
               /\ UNCHANGED << rng, net, guard >>
          ELSE Refused(n, "dispatch_blocks")

\* A chain state that can be loaded, at block 0 or a later one.
CountersLoadChainState(n) ==
    \E block \in 0 .. MaxCounter :
       RpcLoadChainState(n, TRUE, block, [bins |-> RegistryAll], TRUE, FALSE,
                         TRUE)

NextCounters ==
    \/ CountersSyncHeader("S")
    \/ CountersDispatch("S")
    \/ CountersLoadChainState("S")

SpecCounters == InitCounters /\ [][NextCounters]_vars

\* ---- blocks that carry inbound messages
\* The messages block number leaves in the chain storage, one per topic
\* of topics, in this order.
Message(number, index, topic) ==
    [block |-> number, index |-> index, topic |-> topic]
MessagesOf(number, topics) ==
    [i \in 1 .. Len(topics) |-> Message(number, i, topics[i])]
TopicSeqs == UNION {[1 .. k -> Topics] : k \in 0 .. MaxMessages}
BlockWith(number, topics) ==
    [Block(number) EXCEPT !.messages = MessagesOf(number, topics)]

\* A node whose runtime is initialised and that processes blocks in full.
InitInbound ==
    /\ pfx = [n \in Nodes |-> IF n = "S" THEN Started(0, FALSE, TRUE)
                                         ELSE PflixNew]
    /\ rng = [nonce |-> 0, eph |-> 0, iv |-> 0]
    /\ net = [challenges |-> {}, responses |-> {}, keys |-> {}]
    /\ hist = [n \in Nodes |-> HistNew]
    /\ ret = Ret("new", "S", "", NoObs)
    /\ guard = GuardNew

InboundSyncHeader(n) ==
    /\ NextHeader(n) <= MaxInbound
    /\ RpcSyncHeader(n, TRUE, Headers(NextHeader(n), 1), None)

Reversed(topics) ==
    [i \in 1 .. Len(topics) |-> topics[Len(topics) + 1 - i]]

\* The next block alone with any messages of any topics, or the next two
\* blocks in one batch, the second with the topics of the first in the
\* opposite order and with a sound or a wrong state root.
InboundDispatch(n) ==
    /\ NextBlock(n) <= MaxInbound
    /\ \E topics \in TopicSeqs, k \in 1 .. 3 :
          /\ HeaderSynced(n, IF k = 1 THEN NextBlock(n) ELSE NextBlock(n) + 1)
          /\ RpcDispatchBlocks(n, TRUE,
              IF k = 1 THEN << BlockWith(NextBlock(n), topics) >>
              ELSE << BlockWith(NextBlock(n), topics),
                      [BlockWith(NextBlock(n) + 1, Reversed(topics))
                          EXCEPT !.root_ok = (k = 2)] >>,
              NoCheckpointDue)

NextInbound ==
    \/ InboundSyncHeader("S")
    \/ InboundDispatch("S")

SpecInbound == InitInbound /\ [][NextInbound]_vars

\* The handover requests of one caller: a first challenge request, and
\* the other three with a payload that does not decode.
FirstHandover(n) ==
    \/ rng.nonce = 0 /\ HandoverCreateChallenge(n)
    \/ IF Admitted(n, "handover_start")
       THEN handover_start(n, UndecodableResponse, EnvOk) /\ UNCHANGED guard
       ELSE Refused(n, "handover_start")
    \/ /\ rng.eph = 0
       /\ IF Admitted(n, "handover_accept_challenge")
          THEN /\ handover_accept_challenge(n, UndecodableChallenge, AcceptEnvOk(None))
               /\ UNCHANGED guard
          ELSE Refused(n, "handover_accept_challenge")
    \/ IF Admitted(n, "handover_receive")
       THEN handover_receive(n, UndecodableWorkerKey, ReceiveEnvOk) /\ UNCHANGED guard
       ELSE Refused(n, "handover_receive")

\* Header and block requests that do not decode.
UndecodableSync(n) ==
    \/ RpcSyncHeader(n, FALSE, << >>, None)
    \/ RpcDispatchBlocks(n, FALSE, << >>, NoCheckpointDue)

\* Every request against one node, at every safe-mode level, while state
\* replacements begin and end.
NextAdmission ==
    \/ InitRuntimeDefault("S")
    \/ SyncHeader("S")
    \/ DispatchBlocks("S")
    \/ UndecodableSync("S")
    \/ LoadChainStateAtStart("S")
    \/ LoadStorageProof("S")
    \/ PlainRequest("S")
    \/ Stop("S")
    \/ FirstHandover("S")
    \/ BeginStateReplace("S")
    \/ EndStateReplace("S")

SpecAdmission == InitSync /\ [][NextAdmission]_vars

\* ------------------------------------------ header sequences in chunks
\* A chain of MaxChain headers whose authority set changes once: the
\* headers up to block ChangeAt are signed by set 0 and schedule set 1,
\* which signs the headers after it.  Node S is given a sequence of the
\* chain in one call, node C any chunks of it; both are also given
\* sequences with a gap, in the wrong order or signed by an unknown set.
\* Every call carries the change whose designated block is among its
\* headers.
ChangeAt == MaxChain \div 2
ChainSet(number) == IF number > ChangeAt THEN 1 ELSE 0
ChainHeaders(first, k) ==
    [i \in 1 .. k |-> Header(first + i - 1, ChainSet(first + i - 1))]
ChainChange(first, k) ==
    IF ChangeAt \in first .. first + k - 1
    THEN Some([at |-> ChangeAt, set |-> 1])
    ELSE None

UnknownSet == 2

BrokenHeaders(first, k) ==
    LET h == ChainHeaders(first, k) IN
    {[i \in 1 .. k - 1 |-> IF i < j THEN h[i] ELSE h[i + 1]] : j \in 2 .. k - 1}
      \cup {[h EXCEPT ![j] = h[j + 1], ![j + 1] = h[j]] : j \in 1 .. k - 1}
      \cup {[h EXCEPT ![j].signed_by = UnknownSet] : j \in 1 .. k}

SyncWhole(n) ==
    /\ NextHeader(n) = 1
    /\ \E k \in 1 .. MaxChain :
          RpcSyncHeader(n, TRUE, ChainHeaders(1, k), ChainChange(1, k))

SyncChunk(n) ==
    \E first \in 1 .. MaxChain, k \in 1 .. MaxChain :
        /\ first + k - 1 <= MaxChain
        /\ RpcSyncHeader(n, TRUE, ChainHeaders(first, k), ChainChange(first, k))

SyncBroken(n) ==
    \E k \in 1 .. MaxChain :
        /\ NextHeader(n) + k - 1 <= MaxChain
        /\ \E h \in BrokenHeaders(NextHeader(n), k) :
              RpcSyncHeader(n, TRUE, h, ChainChange(NextHeader(n), k))

NextChunks ==
    \/ \E n \in Nodes : InitRuntimeDefault(n)
    \/ SyncWhole("S")
    \/ SyncChunk("C")
    \/ \E n \in Nodes : SyncBroken(n)

SpecChunks == Init /\ [][NextChunks]_vars

\* ------------------------------------------ create_attestation_report_on
\* Line 145: (1 << tried).min(8) on a u64 shifted by the u32 tried.  Below
\* 64 the value is min(2^tried, 8).  From 64 on the shift overflows: a build
\* with overflow checks panics, one without shifts by tried % 64.
ShiftWidth == 64
ShiftOverflows(tried) == tried >= ShiftWidth
Min8Shl(by) == IF by >= 3 THEN 8 ELSE 2 ^ by
sleep_secs(tried) == Min8Shl(tried % ShiftWidth)

ShiftPanic == "panicked: attempt to shift left with overflow"

\* The loop of lines 136-152.  failures is the number of attempts of
\* platform.create_attestation_report that fail before the first one that
\* succeeds; every turn of the loop makes one call, so the calls made are
\* tried + 1 when it ends; sleeps collects the waits.
AttestationRun(calls, sleeps, report, err) ==
    [calls |-> calls, sleeps |-> sleeps, report |-> report, err |-> err]

\* One turn of the loop in state a = [tried, sleeps, done, report, err]: the
\* attempt succeeds, or it was the last one allowed, or the wait is
\* computed and slept and tried goes up by one.
LoopState(tried, sleeps, done, report, err) ==
    [tried |-> tried, sleeps |-> sleeps, done |-> done, report |-> report,
     err |-> err]
attestation_turn(a, max_retries, failures, overflow_checks) ==
    IF a.done THEN a
    ELSE IF a.tried >= failures
    THEN LoopState(a.tried, a.sleeps, TRUE, Some(a.tried + 1), "")
    ELSE IF a.tried >= max_retries
    THEN LoopState(a.tried, a.sleeps, TRUE, None,
                   "Failed to create attestation report")
    ELSE IF ShiftOverflows(a.tried) /\ overflow_checks
    THEN LoopState(a.tried, a.sleeps, TRUE, None, ShiftPanic)
    ELSE LoopState(a.tried + 1, Append(a.sleeps, sleep_secs(a.tried)),
                   FALSE, None, "")

\* The turns lo..hi of the loop in ascending order: the first half, then,
\* unless the loop has ended there, the second half.
RECURSIVE attestation_loop(_, _, _, _, _, _)
attestation_loop(lo, hi, max_retries, failures, overflow_checks, a) ==
    IF lo > hi THEN a
    ELSE IF lo = hi
    THEN attestation_turn(a, max_retries, failures, overflow_checks)
    ELSE LET mid == (lo + hi) \div 2
             left == attestation_loop(lo, mid, max_retries, failures,
                                      overflow_checks, a)
         IN  IF left.done THEN left
             ELSE attestation_loop(mid + 1, hi, max_retries, failures,
                                   overflow_checks, left)

\* The loop ends in turn max_retries at the latest.
create_attestation_report_on(max_retries, failures, overflow_checks) ==
    LET a == attestation_loop(0, max_retries, max_retries, failures,
                              overflow_checks,
                              LoopState(0, << >>, FALSE, None, ""))
    IN  AttestationRun(a.tried + 1, a.sleeps, a.report, a.err)

\* A call with any max_retries, against a platform that fails any number
\* of times first, in a build with or without overflow checks.
AttestationRequests ==
    [max_retries : 0 .. MaxRetries, failures : 0 .. MaxRetries + 1,
     overflow_checks : BOOLEAN]

InitAttestation ==
    /\ pfx = [n \in Nodes |-> PflixNew]
    /\ rng = [nonce |-> 0, eph |-> 0, iv |-> 0]
    /\ net = [challenges |-> {}, responses |-> {}, keys |-> {}]
    /\ hist = [n \in Nodes |-> HistNew]
    /\ \E request \in AttestationRequests :
          ret = Ret("attestation_request", "S", "", request)
    /\ guard = GuardNew

CreateAttestationReport ==
    /\ ret.op = "attestation_request"
    /\ \E run \in {create_attestation_report_on(ret.obs.max_retries,
                        ret.obs.failures, ret.obs.overflow_checks)} :
          ret' = Ret("create_attestation_report_on", "S", run.err,
                     [max_retries |-> ret.obs.max_retries,
                      failures |-> ret.obs.failures,
                      calls |-> run.calls, sleeps |-> run.sleeps,
                      report |-> run.report])
    /\ UNCHANGED << pfx, rng, net, hist, guard >>

SpecAttestation == InitAttestation /\ [][CreateAttestationReport]_vars

\* ------------------------------------------------- the runtime info cache
\* One node, started either with no sealed data or with the key a handover
\* has sealed on it (untrusted, not a dev key), initialized with any debug
\* key and provider, and asked for its runtime info with and without a
\* forced refresh, with and without an operator, in an environment that
\* departs from the ordinary one in one respect at a time.

RuntimeInfoEnvs ==
    {RuntimeInfoEnv,
     [RuntimeInfoEnv EXCEPT !.registered = TRUE],
     [RuntimeInfoEnv EXCEPT !.validated = FALSE],
     [RuntimeInfoEnv EXCEPT !.expired = TRUE],
     [RuntimeInfoEnv EXCEPT !.ra_ok = FALSE],
     [RuntimeInfoEnv EXCEPT !.report_decodes = FALSE]}

HandedOverData == PersistentRuntimeData(GenesisHash, "sk_S", FALSE, FALSE)

InitRuntimeInfo ==
    /\ \E sealed \in {None, Some(HandedOverData)} :
          pfx = [n \in Nodes |-> IF n = "C" THEN [PflixNew EXCEPT !.sealed = sealed]
                                 ELSE PflixNew]
    /\ rng = [nonce |-> 0, eph |-> 0, iv |-> 0]
    /\ net = [challenges |-> {}, responses |-> {}, keys |-> {}]
    /\ hist = [n \in Nodes |-> HistNew]
    /\ ret = Ret("new", "C", "", NoObs)
    /\ guard = GuardNew

GetRuntimeInfo(n) ==
    /\ pfx[n].ra_reports < MaxReports
    /\ \E refresh_ra \in BOOLEAN, operator \in Operators, e \in RuntimeInfoEnvs :
          Call(n, "get_runtime_info",
               get_runtime_info(pfx[n], refresh_ra, operator, e))

NextRuntimeInfo ==
    \/ InitRuntime("C")
    \/ GetRuntimeInfo("C")

SpecRuntimeInfo == InitRuntimeInfo /\ [][NextRuntimeInfo]_vars

\* ------------------------------------------------------ BFV secret keys
\* fhe/src/bfv/keys/secret_key.rs.  A secret key is its coefficients and
\* the parameter set it was made for; the parameter set is a shared handle
\* that the code here passes on and never looks into.
ParameterHandles == {"default_arc(1, 16)", "default_arc(6, 16)"}

\* SecretKey::new (line 41).
SecretKey(coeffs, par) == [par |-> par, coeffs |-> coeffs]

Values(k, range) == [1 .. k -> range]

\* ---- BFV secret keys as bytes
\* Unsigned machine words are kept as their bytes, least significant
\* first, so that words of 32 and of 64 bits fit: MulBytes and AddBytes
\* multiply by and add a small number from byte i on and yield the bytes
\* and the carry out of the word.
RECURSIVE MulBytes(_, _, _, _)
MulBytes(x, k, i, carry) ==
    IF i > Len(x) THEN [bytes |-> << >>, carry |-> carry]
    ELSE LET t == x[i] * k + carry
             rest == MulBytes(x, k, i + 1, t \div 256)
         IN  [bytes |-> << t % 256 >> \o rest.bytes, carry |-> rest.carry]
RECURSIVE AddBytes(_, _, _)
AddBytes(x, i, carry) ==
    IF i > Len(x) THEN [bytes |-> << >>, carry |-> carry]
    ELSE LET t == x[i] + carry
             rest == AddBytes(x, i + 1, t \div 256)
         IN  [bytes |-> << t % 256 >> \o rest.bytes, carry |-> rest.carry]

\* A word below 2^31 and its value; bytes.len() < x for a word x.
Small(x) == x[4] < 128 /\ \A i \in 5 .. Len(x) : x[i] = 0
ToInt(x) == x[1] + 256 * x[2] + 65536 * x[3] + 16777216 * x[4]
LenBelow(len, x) == ~Small(x) \/ len < ToInt(x)

\* u64::to_le_bytes of a length.
u64_to_le_bytes(n) ==
    [i \in 1 .. 8 |-> IF i <= 4 THEN (n \div 256 ^ (i - 1)) % 256 ELSE 0]

\* i64::to_le_bytes in two's complement: the upper four bytes of a
\* coefficient of 32 bits repeat its sign.
SignByteZero(c) == 0
SignByte(c) == IF c < 0 THEN 255 ELSE 0
i64_to_le_bytes(c) ==
    [i \in 1 .. 8 |-> IF i <= 4 THEN (c \div 256 ^ (i - 1)) % 256
                                ELSE SignByte(c)]

\* i64::from_le_bytes.  A value that does not fit 32 bits, which no key of
\* the model holds, is shown as the largest or smallest number there is.
i64_from_le_bytes(b) ==
    IF b[4] < 128 /\ \A i \in 5 .. 8 : b[i] = 0
    THEN b[1] + 256 * b[2] + 65536 * b[3] + 16777216 * b[4]
    ELSE IF b[4] >= 128 /\ \A i \in 5 .. 8 : b[i] = 255
    THEN b[1] + 256 * b[2] + 65536 * b[3] + 16777216 * (b[4] - 256)
    ELSE IF b[8] >= 128 THEN -2147483647 ELSE 2147483647

\* SecretKey::to_bytes (lines 138-151): the number of coefficients as a
\* u64, then every coefficient, all little-endian.
RECURSIVE CoefficientBytes(_, _)
CoefficientBytes(coeffs, i) ==
    IF i > Len(coeffs) THEN << >>
    ELSE i64_to_le_bytes(coeffs[i]) \o CoefficientBytes(coeffs, i + 1)
to_bytes(sk) == u64_to_le_bytes(Len(sk.coeffs)) \o CoefficientBytes(sk.coeffs, 1)

\* The build: whether arithmetic overflow is checked, and the bytes of a
\* usize on the target.
Builds == [overflow_checks : BOOLEAN, word_bytes : {4, 8}]

InvalidByteLength == "Invalid byte length for SecretKey deserialization"
MultiplicationOverflow == "Coefficient length multiplication overflow"
AddPanic == "panicked: attempt to add with overflow"
CapacityPanic == "panicked: capacity overflow"

\* SecretKey::from_bytes(bytes, par) (lines 153-198) in build.
from_bytes(bytes, par, build) ==
    LET Err(e) == [err |-> e, sk |-> None] IN
    IF Len(bytes) < 8 THEN Err(InvalidByteLength)
    ELSE
    LET \* u64::from_le_bytes(bytes[0..8]) as usize
        coeffs_len == SubSeq(bytes, 1, build.word_bytes)
        required_len == MulBytes(coeffs_len, 8, 1, 0)
        \* cursor + required_len, cursor being 8
        needed == AddBytes(required_len.bytes, 1, 8)
    IN  IF required_len.carry > 0 THEN Err(MultiplicationOverflow)
        ELSE IF needed.carry > 0 /\ build.overflow_checks THEN Err(AddPanic)
        ELSE IF LenBelow(Len(bytes), needed.bytes) THEN Err(InvalidByteLength)
        \* Vec::with_capacity(coeffs_len): 8 * coeffs_len above isize::MAX
        ELSE IF required_len.bytes[build.word_bytes] >= 128
          THEN Err(CapacityPanic)
        ELSE [err |-> "",
              sk |-> Some(SecretKey(
                  [i \in 1 .. ToInt(coeffs_len) |->
                      i64_from_le_bytes(SubSeq(bytes, 8 * i + 1, 8 * i + 8))],
                  par))]

\* Keys of up to MaxCoeffs coefficients of either sign and of one to four
\* significant bytes.
MaxCoeffs == 2
CoeffValues == {-16777217, -32769, -256, -1, 0, 1, 255, 65536}
KeyRequests ==
    UNION {[par : ParameterHandles, coeffs : Values(k, CoeffValues)]
           : k \in 0 .. MaxCoeffs}

\* The coefficient counts a byte string may declare instead of its own:
\* 1, 3, 2^29 - 1, 2^29, 2^32, 2^61 - 1, 2^61 and 2^64 - 1.
DeclaredCounts ==
    {<< 1, 0, 0, 0, 0, 0, 0, 0 >>, << 3, 0, 0, 0, 0, 0, 0, 0 >>,
     << 255, 255, 255, 31, 0, 0, 0, 0 >>, << 0, 0, 0, 32, 0, 0, 0, 0 >>,
     << 0, 0, 0, 0, 1, 0, 0, 0 >>,
     << 255, 255, 255, 255, 255, 255, 255, 31 >>,
     << 0, 0, 0, 0, 0, 0, 0, 32 >>,
     << 255, 255, 255, 255, 255, 255, 255, 255 >>}

\* What is made of the bytes of a key before they are read back: they are
\* left as they are, cut short, or given another coefficient count.
InputsFrom(bytes) ==
    {[bytes |-> bytes, as_written |-> TRUE]}
      \cup {[bytes |-> SubSeq(bytes, 1, k), as_written |-> FALSE]
              : k \in 0 .. Len(bytes) - 1}
      \cup {[bytes |-> count \o SubSeq(bytes, 9, Len(bytes)),
              as_written |-> FALSE] : count \in DeclaredCounts}

InitKeyBytes ==
    /\ pfx = [n \in Nodes |-> PflixNew]
    /\ rng = [nonce |-> 0, eph |-> 0, iv |-> 0]
    /\ net = [challenges |-> {}, responses |-> {}, keys |-> {}]
    /\ hist = [n \in Nodes |-> HistNew]
    /\ \E request \in KeyRequests : ret = Ret("key_request", "S", "", request)
    /\ guard = GuardNew

ToBytes ==
    /\ ret.op = "key_request"
    /\ LET sk == SecretKey(ret.obs.coeffs, ret.obs.par)
       IN  ret' = Ret("to_bytes", "S", "", [sk |-> sk, bytes |-> to_bytes(sk)])
    /\ UNCHANGED << pfx, rng, net, hist, guard >>

FromBytes ==
    /\ ret.op = "to_bytes"
    /\ \E input \in InputsFrom(ret.obs.bytes), build \in Builds :
          \E r \in {from_bytes(input.bytes, ret.obs.sk.par, build)} :
             ret' = Ret("from_bytes", "S", r.err,
                        [sk |-> ret.obs.sk, bytes |-> input.bytes,
                         as_written |-> input.as_written, build |-> build,
                         read |-> r.sk])
    /\ UNCHANGED << pfx, rng, net, hist, guard >>

NextKeyBytes == ToBytes \/ FromBytes

SpecKeyBytes == InitKeyBytes /\ [][NextKeyBytes]_vars

\* ------------------------------------------- concurrent request threads
\* Two request threads on one node.  A thread acquires the guard, runs its
\* handler on the guarded state, and the guard is dropped when the handler
\* returns.  dispatch_blocks holds the guard over a batch of two blocks and
\* init_runtime over its two groups of writes, so that the state between
\* two steps of one handler is a partially updated one.
ThreadOps ==
    {"get_info", "init_runtime", "sync_header", "dispatch_blocks",
     "handover_create_challenge", "handover_start"}

Steps(op) == IF op \in {"init_runtime", "dispatch_blocks"} THEN 2 ELSE 1

Holders == {t \in Threads : guard.thread[t].pc = "held"}

Holding(t, op, left) ==
    /\ guard.thread[t].pc = "held"
    /\ guard.thread[t].op = op
    /\ guard.thread[t].left = left

Held(t, op, left) ==
    [holder |-> Some(t),
     thread |-> [guard.thread EXCEPT ![t] = [pc |-> "held", op |-> op, left |-> left]]]

Dropped(t) ==
    [holder |-> None, thread |-> [guard.thread EXCEPT ![t] = IdleThread]]

\* The requests the bounds still leave room for.
InBounds(op) ==
    CASE op = "sync_header" -> NextHeader("S") + 1 <= MaxSync
      [] op = "dispatch_blocks" -> HeaderSynced("S", NextBlock("S") + 1)
      [] op = "handover_create_challenge" -> rng.nonce < MaxIssue
      [] op = "handover_start" -> rng.iv < MaxIssue
      [] OTHER -> TRUE

\* lock_pflix: wait for the mutex, then be admitted or refused.
AcquireGuard(t) ==
    /\ guard.thread[t].pc = "idle"
    /\ MutexFree(guard)
    /\ \E op \in ThreadOps :
          /\ InBounds(op)
          /\ IF Admitted("S", op)
             THEN /\ guard' = Held(t, op, Steps(op))
                  /\ UNCHANGED << pfx, rng, net, hist, ret >>
             ELSE Refused("S", op)

ThreadGetInfo(t) ==
    /\ Holding(t, "get_info", 1)
    /\ ret' = Ret("get_info", "S", "", get_info(pfx["S"]).obs)
    /\ guard' = Dropped(t)
    /\ UNCHANGED << pfx, rng, net, hist >>

\* init_runtime: init_runtime_data (lines 727-730), which seals the
\* identity, and the writes of lines 731-735, then the rest of the handler.
ThreadInitRuntime(t) ==
    LET a == DefaultInitArgs
        q == init_runtime_on("S", pfx["S"], a.header_root, a.genesis_state, a.operator,
                             a.debug_set_key, a.provider, a.quote_ok).p
    IN  \/ /\ Holding(t, "init_runtime", 2)
           /\ ~AlreadyInitialized(pfx["S"])
           /\ pfx' = [pfx EXCEPT !["S"].sealed = q.sealed,
                                 !["S"].dev_mode = q.dev_mode,
                                 !["S"].trusted_sk = q.trusted_sk,
                                 !["S"].attestation_provider = q.attestation_provider]
           /\ guard' = Held(t, "init_runtime", 1)
           /\ UNCHANGED << rng, net, hist, ret >>
        \/ /\ \/ Holding(t, "init_runtime", 1)
              \/ Holding(t, "init_runtime", 2) /\ AlreadyInitialized(pfx["S"])
           /\ init_runtime("S", a.header_root, a.genesis_state, a.operator,
                            a.debug_set_key,
                           a.provider, a.quote_ok)
           /\ guard' = Dropped(t)
           /\ UNCHANGED << rng, net, hist >>

ThreadSyncHeader(t) ==
    /\ Holding(t, "sync_header", 1)
    /\ sync_header("S", Headers(NextHeader("S"), 2), None)
    /\ guard' = Dropped(t)
    /\ UNCHANGED << rng, net, hist >>

\* dispatch_blocks on the next two blocks, one turn of its loop per step;
\* the handler returns after the last block or at the first error.
ThreadDispatchBlocks(t) ==
    \E left \in 1 .. 2 :
      /\ Holding(t, "dispatch_blocks", left)
      /\ LET p == pfx["S"]
             number == NextBlock("S")
             first == number - (2 - left)
             offered == Offered(Blocks(first, 2))
         IN  IF p.runtime_state = None
             THEN /\ ret' = Ret("dispatch_blocks", "S", RuntimeNotInitialized, offered)
                  /\ guard' = Dropped(t)
                  /\ pfx' = pfx
             ELSE \E r \in {DispatchStep([p |-> p, turn |-> 1,
                                           obs |-> offered, err |-> ""],
                                          Block(number), NoCheckpointDue)} :
                    /\ pfx' = [pfx EXCEPT !["S"] = r.p]
                    /\ IF r.err # ""
                       THEN /\ ret' = Ret("dispatch_blocks", "S", r.err, offered)
                            /\ guard' = Dropped(t)
                       ELSE IF left = 1
                       THEN /\ ret' = Ret("dispatch_blocks", "S", "",
                                          [offered EXCEPT !.synced_to = number])
                            /\ guard' = Dropped(t)
                       ELSE /\ ret' = ret
                            /\ guard' = Held(t, "dispatch_blocks", 1)
      /\ UNCHANGED << rng, net, hist >>

ThreadHandoverCreateChallenge(t) ==
    /\ Holding(t, "handover_create_challenge", 1)
    /\ handover_create_challenge("S")
    /\ guard' = Dropped(t)

ThreadHandoverStart(t) ==
    /\ Holding(t, "handover_start", 1)
    /\ \E req \in StartRequests("S") : handover_start("S", req, EnvOk)
    /\ guard' = Dropped(t)

NextGuard ==
    \E t \in Threads :
        \/ AcquireGuard(t)
        \/ ThreadGetInfo(t)
        \/ ThreadInitRuntime(t)
        \/ ThreadSyncHeader(t)
        \/ ThreadDispatchBlocks(t)
        \/ ThreadHandoverCreateChallenge(t)
        \/ ThreadHandoverStart(t)

SpecGuard == Init /\ [][NextGuard]_vars

\* ------------------------------------------------------------ properties
\* The node and the observations of the call that returned last.
LastNode == ret.node
StartReturned == ret.op = "handover_start"
StartReleased == StartReturned /\ ret.err = ""
AcceptReturned == ret.op = "handover_accept_challenge"
ReceiveReturned == ret.op = "handover_receive"
SgxProviders == {Some("Ias"), Some("Dcap")}
ChecksInForce(n) == ~pfx[n].dev_mode /\ pfx[n].attestation_provider \in SgxProviders

\* C1: between two issues of a challenge, verify_worker_key_challenge
\* returns true at most once on every node, whatever challenges it is given.
ChallengeConsumedAtMostOnce == \A n \in Nodes : hist[n].accepted <= 1

\* A second check of the challenge that was accepted before returned false.
SecondCheckRejected ==
    /\ StartReturned
    /\ ret.obs.reached_challenge /\ ~ret.obs.verified
    /\ ret.obs.challenge = hist[LastNode].last_issued
    /\ hist[LastNode].accepted = 1

\* C2: every step in which handover_start returns a key is taken with the
\* request's challenge equal to the most recently issued one and with no
\* check of a challenge since that issue; and the keys released on a node
\* never outnumber the challenges it issued.
KeyOnlyForLatestUncheckedChallenge ==
    /\ [][(ret'.op = "handover_start" /\ ret'.err = "") =>
            /\ IsSome(hist[ret'.node].last_issued)
            /\ ret'.obs.challenge = hist[ret'.node].last_issued
            /\ ~hist[ret'.node].checked]_vars
    /\ [](\A n \in Nodes : hist[n].released <= hist[n].issued)

\* A key was released for the second challenge a server issued.
KeyReleasedForSecondChallenge ==
    /\ StartReleased
    /\ hist[LastNode].issued = 2
    /\ ret.obs.challenge = hist[LastNode].last_issued

\* C3: a handover_start that returns a key on a server whose dev_mode is
\* false has passed the remote-attestation, local-attestation and launch
\* date checks, whatever provider is configured.
ServerChecksSkippedOnlyInDevMode ==
    (StartReleased /\ ~pfx[LastNode].dev_mode) =>
        ret.obs.ra_checked /\ ret.obs.la_checked /\ ret.obs.ts_checked

\* C5: with the checks in force, a key is released only when both
\* measurements are registered in the chain storage and the client's
\* build was added strictly later than the server's.
KeyOnlyToNewerBuild ==
    (StartReleased /\ ChecksInForce(LastNode)) =>
        LET bins == Unwrap(pfx[LastNode].runtime_state).chain_storage.bins
            mine == bins[Measurement(LastNode)]
            theirs == bins[Unwrap(ret.obs.attestation).measurement]
        IN  /\ IsSome(ret.obs.attestation)
            /\ IsSome(mine) /\ IsSome(theirs)
            /\ Unwrap(mine) < Unwrap(theirs)

\* With the checks in force, a request that passed every earlier gate was
\* refused for its build date and no key had been released.
RollbackAttemptRefused ==
    /\ StartReturned /\ ChecksInForce(LastNode)
    /\ ret.err = "Same pflix version or rollback ,No local handover provided"
    /\ ret.obs.key = None
    /\ hist[LastNode].released = 0

\* C6: in every mode, a handover_start that reaches the age gate fails
\* with 'Outdated challenge' exactly when current block - challenge block
\* is not within 0..150; a key is released only inside that window and
\* never together with an error.
ChallengeAgeGate ==
    StartReturned =>
        LET age == ret.obs.block_number - ret.obs.challenge_height
            inside == 0 <= age /\ age <= 150
        IN  /\ ret.obs.reached_age => ((ret.err = "Outdated challenge") <=> ~inside)
            /\ ret.err = "Outdated challenge" => ret.obs.reached_age
            /\ ret.err = "" => ret.obs.reached_age /\ inside
            /\ ret.err # "" => ret.obs.key = None

\* A dev-mode server refused a challenge that was 151 blocks old.
OutdatedRefusedInDevMode ==
    /\ StartReturned /\ pfx[LastNode].dev_mode
    /\ ret.err = "Outdated challenge"
    /\ ret.obs.block_number - ret.obs.challenge_height = 151

\* A dev-mode server refused the challenge it had issued last because the
\* challenge names a block above the current one: a chain state loaded at
\* block 1 had brought the current block back in between.
ChallengeAboveCurrentBlockRefused ==
    /\ StartReturned /\ pfx[LastNode].dev_mode
    /\ ret.err = "Outdated challenge"
    /\ ret.obs.verified
    /\ ret.obs.block_number = 1
    /\ ret.obs.challenge_height > ret.obs.block_number
    /\ Unwrap(pfx[LastNode].system).genesis_block = 1

\* C7: with the checks in force, a key is released only when the request
\* carried an attestation that decodes to a report bound to the hash of
\* the challenge-handler data of that same request.
KeyOnlyForAttestedHandler ==
    (StartReleased /\ ChecksInForce(LastNode)) =>
        /\ IsSome(ret.obs.attestation)
        /\ Unwrap(ret.obs.attestation).valid
        /\ Unwrap(ret.obs.attestation).payload_hash = blake2_256(Unwrap(ret.obs.handler))

\* With the checks in force, a request without attestation was refused
\* before the challenge was looked at.
MissingAttestationRefused ==
    /\ StartReturned /\ ChecksInForce(LastNode)
    /\ ret.err = "Client attestation not found"
    /\ ~ret.obs.reached_challenge
    /\ ret.obs.key = None

\* C4: a client whose own dev_mode is false adopts a key in
\* handover_receive only after validating the server's attestation, and a
\* handover_accept_challenge it answers carries a local and a remote
\* report, whatever the message says.
ClientChecksSkippedOnlyInDevMode ==
    /\ (ReceiveReturned /\ ret.err = "" /\ ~pfx[LastNode].dev_mode) =>
           ret.obs.ra_validated
    /\ (AcceptReturned /\ ret.err = "" /\ ~pfx[LastNode].dev_mode) =>
           ret.obs.la_produced /\ ret.obs.ra_produced

\* C8: when handover_receive succeeds on the key message of a handover
\* whose four steps ran in order, the secret key the client has sealed is
\* the sealed secret key of the server.
RoundTripRecoversServerKey ==
    (ReceiveReturned /\ ret.err = "") =>
        /\ IsSome(pfx["S"].sealed) /\ IsSome(pfx["C"].sealed)
        /\ Unwrap(pfx["C"].sealed).sk = Unwrap(pfx["S"].sealed).sk

\* An attested handover with the second ephemeral key completed: the
\* client validated the server's report and sealed the server's key.
AttestedRoundTripDone ==
    /\ ReceiveReturned /\ ret.err = ""
    /\ ret.obs.ra_validated
    /\ pfx["S"].system # None
    /\ Unwrap(pfx["C"].sealed).sk = Unwrap(pfx["S"].system).identity_key
    /\ rng.eph = 2 /\ hist["S"].released >= 1

\* C9: a successful handover_receive leaves handover_ecdh_key and
\* runtime_info empty, and every handover_receive called after one, with
\* no handover_accept_challenge in between, fails and leaves the sealed
\* identity as it was.
WorkerKeyConsumedOnce ==
    /\ [](( ReceiveReturned /\ ret.err = "") =>
            /\ pfx[LastNode].handover_ecdh_key = None
            /\ pfx[LastNode].runtime_info = None)
    /\ [][(ret'.op = "handover_receive" /\ hist[ret'.node].received) =>
            /\ ret'.err # ""
            /\ pfx'[ret'.node].sealed = pfx[ret'.node].sealed]_vars

\* A well-formed key message was refused after an earlier one had been
\* adopted by an initialised client.
SecondReceiveRefused ==
    /\ ReceiveReturned
    /\ ret.err = "Handover ecdhkey not initialized"
    /\ hist[LastNode].received
    /\ IsSome(pfx[LastNode].sealed) /\ IsSome(pfx[LastNode].system)

\* C10: handover_ecdh_key is empty whenever handover_receive has returned,
\* and whenever handover_accept_challenge has returned an error.
EphemeralKeyClearedOnEveryExit ==
    /\ ReceiveReturned => pfx[LastNode].handover_ecdh_key = None
    /\ (AcceptReturned /\ ret.err # "") => pfx[LastNode].handover_ecdh_key = None

\* --------------------------------------------------------- init_runtime
InitReturned == ret.op = "init_runtime"

\* C14: an init_runtime call that fails with a state root mismatch leaves
\* the Pflix instance of its node exactly as it was before the call.
RootMismatchLeavesNoTrace ==
    [][(ret'.op = "init_runtime" /\ ret'.err = "state root mismatch") =>
          pfx'[ret'.node] = pfx[ret'.node]]_vars

\* C15: an init_runtime call that the guard admits on an initialised
\* instance fails with "Runtime already initialized" and changes nothing,
\* and a runtime state, once created, is never created again: no later
\* init_runtime succeeds on that node.
InitRuntimeOneShot ==
    [][\A n \in Nodes :
         (IsSome(pfx[n].system) /\ ret'.op = "init_runtime" /\ ret'.node = n
            /\ Admitted(n, "init_runtime")) =>
              /\ ret'.err = "Runtime already initialized"
              /\ pfx'[n] = pfx[n]]_vars

\* A tampered genesis state was refused: the call was given a provider and
\* a genesis state whose root is not the one the header declares.
TamperedGenesisRefused ==
    /\ InitReturned /\ ret.err = "state root mismatch"
    /\ ~ret.obs.root_matches
    /\ ret.obs.attestation_provider = Some("Ias")
    /\ pfx[LastNode].system = None /\ pfx[LastNode].runtime_state = None
    /\ pfx[LastNode].runtime_info = None

\* A second init_runtime was refused on a node whose runtime exists.
SecondInitRefused ==
    /\ InitReturned /\ ret.err = "Runtime already initialized"
    /\ IsSome(pfx[LastNode].system) /\ IsSome(pfx[LastNode].runtime_state)
    /\ IsSome(pfx[LastNode].runtime_info)

\* C16: an init_runtime call given a debug key and an attestation provider
\* fails and leaves the runtime uninitialised, and no initialised runtime
\* is both in dev mode and configured with an attestation provider.
NoDevModeWithAttestation ==
    /\ (InitReturned /\ IsSome(ret.obs.debug_set_key)
          /\ IsSome(ret.obs.attestation_provider)) =>
            /\ ret.err # ""
            /\ (ret.err # "Runtime already initialized" =>
                  /\ pfx[LastNode].system = None
                  /\ pfx[LastNode].runtime_state = None)
    /\ \A n \in Nodes :
          IsSome(pfx[n].system) =>
              ~(pfx[n].dev_mode /\ IsSome(pfx[n].attestation_provider))

\* A debug key was offered together with a provider to a fresh node.
DebugKeyWithProviderRefused ==
    /\ InitReturned
    /\ ret.err = "RA is disallowed when debug_set_key is enabled"
    /\ IsSome(ret.obs.debug_set_key) /\ IsSome(ret.obs.attestation_provider)
    /\ pfx[LastNode].system = None

\* ------------------------------------------------------- synchronisation
\* A dispatch_blocks call returned with an account of what it did.
DispatchReturned == ret.op = "dispatch_blocks" /\ "fed" \in DOMAIN ret.obs
Level == pfx[LastNode].safe_mode_level

\* A load_chain_state call returned with an account of what it was given.
LoadReturned == ret.op = "load_chain_state" /\ "can_load" \in DOMAIN ret.obs

\* C17 as stated: no step, whatever the operation and whether it fails or
\* not, removes the runtime state or lowers next_header_number or
\* next_block_number, and the blocks dispatch_blocks hands on to be
\* applied all have numbers >= next_block_number as it was when the call
\* started.
CountersNeverDecrease ==
    [][/\ \A n \in Nodes :
            pfx[n].runtime_state # None =>
              /\ pfx'[n].runtime_state # None
              /\ NextHeader(n)' >= NextHeader(n)
              /\ NextBlock(n)' >= NextBlock(n)
       /\ (ret'.op = "dispatch_blocks" /\ "fed" \in DOMAIN ret'.obs
             /\ ret'.obs.fed_from # 0) =>
               ret'.obs.fed_from >= NextBlock(ret'.node)]_vars

\* C17: no step removes the runtime state; a load_chain_state call that
\* succeeds puts next_header_number and next_block_number right after the
\* block it was given, wherever they were; no other step, whatever the
\* operation and whether it fails or not, lowers either counter; and the
\* blocks dispatch_blocks hands on to be applied all have numbers >=
\* next_block_number as it was when the call started.
CountersLoweredOnlyByLoad ==
    [][/\ \A n \in Nodes :
            pfx[n].runtime_state # None =>
              /\ pfx'[n].runtime_state # None
              /\ IF LoadReturned' /\ ret'.err = "" /\ ret'.node = n
                 THEN /\ NextHeader(n)' = ret'.obs.block + 1
                      /\ NextBlock(n)' = ret'.obs.block + 1
                 ELSE /\ NextHeader(n)' >= NextHeader(n)
                      /\ NextBlock(n)' >= NextBlock(n)
       /\ (ret'.op = "dispatch_blocks" /\ "fed" \in DOMAIN ret'.obs
             /\ ret'.obs.fed_from # 0) =>
               ret'.obs.fed_from >= NextBlock(ret'.node)]_vars

\* A batch that began below next_block_number: its older blocks were left
\* out and the others were applied.
OlderBlocksSkipped ==
    /\ DispatchReturned /\ ret.err = ""
    /\ ret.obs.first # 0 /\ ret.obs.first < ret.obs.fed_from
    /\ ret.obs.fed >= 1
    /\ NextBlock(LastNode) = ret.obs.fed_from + ret.obs.fed

\* A chain state was loaded at a block below one whose messages the node
\* had already dispatched: both counters are right after the loaded block,
\* behind where they were.
LoadedBehindDispatchedBlock ==
    /\ LoadReturned /\ ret.err = ""
    /\ Unwrap(pfx[LastNode].runtime_state).dispatched_at > ret.obs.block
    /\ NextHeader(LastNode) = ret.obs.block + 1
    /\ NextBlock(LastNode) = ret.obs.block + 1

\* C19 as stated: a call given the batch that an earlier call applied as
\* a whole, all of it now below next_block_number, returns the synced_to
\* that the applying call returned.
ResubmitReturnsFirstSyncedTo ==
    (/\ DispatchReturned /\ ret.err = ""
     /\ ret.obs.offered > 0 /\ ret.obs.fed_from = 0
     /\ hist[ret.node].applied # None
     /\ Unwrap(hist[ret.node].applied).first = ret.obs.first
     /\ Unwrap(hist[ret.node].applied).offered = ret.obs.offered)
    => ret.obs.synced_to = Unwrap(hist[ret.node].applied).synced_to

\* C19: a dispatch_blocks call that the guard admits on an initialised
\* runtime with a decodable, non-empty batch whose block numbers are all
\* below next_block_number succeeds, feeds, purges, dispatches and
\* checkpoints nothing, leaves the whole instance as it was and returns
\* synced_to = next_block_number - 1.
ResubmitChangesNothing ==
    [][(/\ ret'.op = "dispatch_blocks" /\ "fed" \in DOMAIN ret'.obs
        /\ ret'.obs.offered > 0
        /\ Admitted(ret'.node, "dispatch_blocks")
        /\ pfx[ret'.node].runtime_state # None
        /\ ret'.obs.first + ret'.obs.offered - 1 < NextBlock(ret'.node))
       => /\ ret'.err = ""
          /\ pfx' = pfx
          /\ ret'.obs.synced_to = NextBlock(ret'.node) - 1
          /\ ret'.obs.fed_from = 0 /\ ret'.obs.fed = 0
          /\ ret'.obs.purged = 0 /\ ret'.obs.dispatched = 0
          /\ ret'.obs.checkpoint_calls = 0 /\ ret'.obs.checkpoints = 0]_vars

\* A batch was submitted again after later blocks had been applied: the
\* call returned the number of the last applied block, which is above
\* every number of the batch.
OldBatchResubmitted ==
    /\ DispatchReturned /\ ret.err = ""
    /\ ret.obs.offered > 0 /\ ret.obs.fed_from = 0
    /\ ret.obs.synced_to = NextBlock(LastNode) - 1
    /\ ret.obs.synced_to > ret.obs.first + ret.obs.offered - 1

\* What dispatch_blocks does at every level: the blocks it applied are in
\* the storage and counted, and proofs are dropped exactly from level 2.
BlocksApplied ==
    /\ ret.obs.fed > 0 =>
          /\ NextBlock(LastNode) = ret.obs.fed_from + ret.obs.fed
          /\ Unwrap(pfx[LastNode].runtime_state).storage_at
                = NextBlock(LastNode) - 1
    /\ ret.obs.drop_proofs \subseteq {Level >= 2}

\* In safe mode nothing but the storage is touched.
NothingProcessed ==
    /\ ret.obs.purged = 0 /\ ret.obs.dispatched = 0
    /\ ret.obs.checkpoint_calls = 0 /\ ret.obs.checkpoints = 0

\* C20 as stated: at level >= 1 the applied blocks are only fed to the
\* storage; at level 0 the queue is purged, the inbound messages are
\* dispatched and a checkpoint is taken for every applied block; proofs
\* are dropped exactly at level >= 2.
CheckpointForEveryBlock ==
    DispatchReturned =>
        /\ BlocksApplied
        /\ Level >= 1 => NothingProcessed
        /\ Level = 0 =>
              /\ ret.obs.purged = ret.obs.fed
              /\ ret.obs.dispatched = ret.obs.fed
              /\ ret.obs.checkpoints = ret.obs.fed

\* The turns of the last dispatch_blocks call in which take_checkpoint was
\* called.
CheckpointTurns ==
    {i \in 1 .. Len(ret.obs.checkpoint_tried) : ret.obs.checkpoint_tried[i]}

\* C20: at level >= 1 the applied blocks are only fed to the storage; at
\* level 0 the queue is purged, the inbound messages are dispatched and
\* maybe_take_checkpoint is called for every applied block, and it takes a
\* checkpoint in exactly the turns in which checkpoints are enabled and
\* the checkpoint interval has elapsed since the last checkpoint, so that
\* no checkpoint is recorded otherwise; proofs are dropped exactly at
\* level >= 2.
SafeModeDegradesProcessing ==
    DispatchReturned =>
        /\ BlocksApplied
        /\ Level >= 1 => NothingProcessed
        /\ Level = 0 =>
              /\ ret.obs.purged = ret.obs.fed
              /\ ret.obs.dispatched = ret.obs.fed
              /\ ret.obs.checkpoint_calls = ret.obs.fed
              /\ Len(ret.obs.checkpoint_tried) = ret.obs.fed
              /\ Len(ret.obs.checkpoint_due) = ret.obs.fed
              /\ \A i \in 1 .. ret.obs.fed :
                    ret.obs.checkpoint_tried[i]
                       <=> (pfx[LastNode].enable_checkpoint
                            /\ ret.obs.checkpoint_due[i])
              /\ ret.obs.checkpoint_attempts = Cardinality(CheckpointTurns)
              /\ ret.obs.checkpoints <= ret.obs.checkpoint_attempts

\* Blocks were applied at level 1 on a node with checkpoints enabled, with
\* their proofs kept, and nothing else was done.
AppliedInSafeModeOnly ==
    /\ DispatchReturned /\ ret.err = ""
    /\ Level = 1 /\ pfx[LastNode].enable_checkpoint
    /\ ret.obs.fed = MaxBatch /\ ret.obs.drop_proofs = {FALSE}
    /\ NextBlock(LastNode) = ret.obs.fed_from + ret.obs.fed
    /\ Unwrap(pfx[LastNode].runtime_state).mq_purged_at = 0
    /\ Unwrap(pfx[LastNode].runtime_state).dispatched_at = 0
    /\ pfx[LastNode].checkpoint_at = 0

\* A checkpoint was attempted during the last dispatch_blocks call and
\* failed.
CheckpointFailed ==
    /\ DispatchReturned
    /\ ret.obs.checkpoints < ret.obs.checkpoint_attempts

\* The block after the applied ones, as the storage synchronizer of the
\* last node sees it now.
NextBlockFed ==
    feed_block(Unwrap(pfx[LastNode].runtime_state),
               Block(NextBlock(LastNode)), DropProofs(Level))

\* The block after the ones the last call applied, as the batch had it,
\* fed to the storage synchronizer as the call left it.
RefusedBlock == ret.obs.fed_from + ret.obs.fed
RefusedBlockFed ==
    feed_block(Unwrap(pfx[LastNode].runtime_state),
               [Block(RefusedBlock) EXCEPT
                  !.root_ok = RefusedBlock \notin ret.obs.bad_roots],
               DropProofs(Level))

\* C26: inside dispatch_blocks a checkpoint is attempted only when
\* checkpoints are enabled and the checkpoint interval has elapsed since
\* the last checkpoint, and a failed checkpoint neither fails the call nor
\* stops the loop: the blocks up to the end of the batch are applied and
\* dispatched and the call succeeds, unless feed_block itself refuses one
\* of them, and then the call fails with the error of feed_block.
CheckpointGatedAndNonFatal ==
    DispatchReturned =>
        /\ \A i \in 1 .. Len(ret.obs.checkpoint_tried) :
              ret.obs.checkpoint_tried[i] =>
                 /\ pfx[LastNode].enable_checkpoint
                 /\ ret.obs.checkpoint_due[i]
        /\ CheckpointFailed =>
              /\ ret.obs.fed = NextBlock(LastNode) - ret.obs.fed_from
              /\ ret.obs.dispatched = ret.obs.fed
              /\ IF NextBlock(LastNode) = ret.obs.first + ret.obs.offered
                 THEN /\ ret.err = ""
                      /\ ret.obs.synced_to = NextBlock(LastNode) - 1
                 ELSE /\ NextBlock(LastNode) < ret.obs.first + ret.obs.offered
                      /\ ret.err # "" /\ ret.err = RefusedBlockFed.err

\* The interval elapsed in the middle of a call: no checkpoint after the
\* first block of the batch, one after the second.
CheckpointAfterSecondBlockOnly ==
    /\ DispatchReturned /\ ret.err = ""
    /\ ret.obs.checkpoint_tried = << FALSE, TRUE >>
    /\ ret.obs.checkpoints = 1
    /\ pfx[LastNode].checkpoint_at = ret.obs.fed_from + 1

\* Every reading of the clock found the interval elapsed, as with
\* checkpoint_interval = 0: a checkpoint after each block of the batch.
CheckpointAfterEveryBlock ==
    /\ DispatchReturned /\ ret.err = ""
    /\ ret.obs.checkpoint_tried = << TRUE, TRUE >>
    /\ ret.obs.checkpoints = 2
    /\ pfx[LastNode].checkpoint_at = ret.obs.fed_from + 1

\* A checkpoint was taken after the first block of a batch whose second
\* block was then refused for its state root: the call failed and the
\* checkpoint stays.
CheckpointBeforeRefusedBlock ==
    /\ DispatchReturned /\ ret.err = StateRootMismatch
    /\ ret.obs.checkpoint_tried = << TRUE >> /\ ret.obs.checkpoints = 1
    /\ pfx[LastNode].checkpoint_at = ret.obs.fed_from
    /\ NextBlock(LastNode) = ret.obs.fed_from + 1

\* The checkpoint failed after each of the MaxBatch blocks of a batch; the
\* call succeeded, all of them are applied and dispatched, and no
\* checkpoint is recorded.
BatchAppliedDespiteFailedCheckpoints ==
    /\ CheckpointFailed /\ ret.err = ""
    /\ ret.obs.checkpoint_attempts = MaxBatch /\ ret.obs.checkpoints = 0
    /\ ret.obs.fed = MaxBatch /\ ret.obs.dispatched = MaxBatch
    /\ Unwrap(pfx[LastNode].runtime_state).dispatched_at
          = ret.obs.first + ret.obs.offered - 1
    /\ pfx[LastNode].checkpoint_at = 0

\* The grounds on which load_chain_state(block, storage) rejects on node p.
LoadRejected(p, obs) ==
    \/ ~obs.can_load
    \/ obs.block = 0
    \/ p.system = None \/ p.runtime_state = None
    \/ obs.registered
    \/ ~obs.assume_ok

\* C27: a load_chain_state call that is not allowed, names block 0, meets
\* an uninitialised runtime, offers a state in which the worker's key is
\* registered, or whose assume_at_block fails, returns an error and leaves
\* the instance, with its chain storage, counters and genesis block, as it
\* was; every other call succeeds, replaces the chain storage by the
\* offered one, puts both counters right after block and sets the genesis
\* block to block.
LoadChainStateAllOrNothing ==
    [][(LoadReturned)' =>
         IF LoadRejected(pfx[ret'.node], ret'.obs)
         THEN ret'.err # "" /\ pfx' = pfx
         ELSE /\ ret'.err = ""
              /\ Unwrap(pfx'[ret'.node].runtime_state).chain_storage
                    = ret'.obs.storage
              /\ Unwrap(pfx'[ret'.node].runtime_state).next_header_number
                    = ret'.obs.block + 1
              /\ Unwrap(pfx'[ret'.node].runtime_state).next_block_number
                    = ret'.obs.block + 1
              /\ Unwrap(pfx'[ret'.node].system).genesis_block
                    = ret'.obs.block]_vars

\* A state that registers the worker's key was offered to a node with
\* headers and blocks behind it, for a block ahead of both counters: the
\* call was rejected and the node still has its own storage and counters.
RegisteredStateRejected ==
    /\ LoadReturned /\ ret.obs.registered /\ ret.obs.can_load
    /\ ret.err = "Failed to load state: the worker is already registered"
    /\ pfx[LastNode].runtime_state # None
    /\ NextHeader(LastNode) > 1 /\ NextBlock(LastNode) > 1
    /\ Unwrap(pfx[LastNode].system).genesis_block = 0

\* A state was loaded at a block ahead of both counters onto a node whose
\* chain storage differed from the offered one.
ChainStateLoaded ==
    /\ LoadReturned /\ ret.err = ""
    /\ ret.obs.storage = [bins |-> RegistryNoServer]
    /\ Unwrap(pfx[LastNode].runtime_state).chain_storage = ret.obs.storage
    /\ NextBlock(LastNode) = ret.obs.block + 1
    /\ Unwrap(pfx[LastNode].system).genesis_block = ret.obs.block

\* assume_at_block failed, and nothing changed.
AssumeFailedLoadRejected ==
    /\ LoadReturned /\ ret.err = "Failed to set synchronizer state"
    /\ ~ret.obs.assume_ok
    /\ Unwrap(pfx[LastNode].runtime_state).chain_storage # ret.obs.storage
    /\ NextBlock(LastNode) # ret.obs.block + 1

\* The messages of the entries of a dispatcher queue, in their order.
MessagesIn(entries) == [i \in 1 .. Len(entries) |-> entries[i].message]
Consumed(message) == message.topic \in ConsumedTopics
Unconsumed(message) == ~Consumed(message)

\* C29: the pass of handle_inbound_messages over a block dispatches the
\* messages of the chain storage, each once and in their order, under the
\* local indices 0, 1, ...; the application system gets the ones it
\* consumes, the others are counted and dropped; the inbound dispatcher is
\* empty after every pass; and dispatch_blocks fails only where feed_block
\* refuses a block, never because of an unclaimed message.
InboundPassExactlyOnce ==
    /\ \A n \in Nodes : pfx[n].runtime_state # None =>
          LET st == Unwrap(pfx[n].runtime_state) IN
          /\ st.recv_mq.pending = << >>
          /\ st.dispatched_at = st.storage_at =>
                /\ st.inbound.dispatched = st.mq_messages
                /\ MessagesIn(st.inbound.handled)
                      = SelectSeq(st.mq_messages, Consumed)
                /\ \A i \in 1 .. Len(st.inbound.handled) :
                      st.inbound.handled[i].sn
                        = st.inbound.handled[i].message.index - 1
                /\ st.inbound.unhandled
                      = Len(SelectSeq(st.mq_messages, Unconsumed))
    /\ (DispatchReturned /\ ret.err # "") =>
          /\ ret.err = StateRootMismatch
          /\ ret.obs.fed_from + ret.obs.fed \in ret.obs.bad_roots

\* A batch of two blocks was applied whose first block carried messages
\* and whose second block carried MaxMessages messages, a consumed one
\* after an unconsumed one among them: the call succeeded, the consumed
\* ones were handled, the others dropped, and nothing of the first block
\* is left in the dispatcher.
UnclaimedDropped ==
    /\ DispatchReturned /\ ret.err = "" /\ ret.obs.fed = 2
    /\ LET st == Unwrap(pfx[LastNode].runtime_state) IN
          /\ Len(st.inbound.dispatched) = MaxMessages
          /\ st.inbound.dispatched[1].topic = "unconsumed"
          /\ st.inbound.dispatched[2].topic = "consumed"
          /\ st.inbound.unhandled > 0
          /\ st.inbound.handled # << >>
          /\ \A i \in 1 .. MaxMessages :
                st.inbound.dispatched[i].block = ret.obs.first + 1
          /\ st.recv_mq.pending = << >>


\* ---- the Runtime Guard's admission rules

LockFailures == {LockSafeMode, LockStatePending}

\* The requests that pass allow_safemode = false, and those that pass true.
SafeModeRefusedOps ==
    {"init_runtime", "get_runtime_info", "get_egress_messages", "set_endpoint",
     "refresh_endpoint_signing_time", "get_endpoint_info",
     "get_master_key_apply", "load_chain_state", "take_checkpoint"}
SafeModeAdmittedOps ==
    {"get_info", "sync_header", "dispatch_blocks", "handover_create_challenge",
     "handover_start", "handover_accept_challenge", "handover_receive",
     "load_storage_proof", "stop"}

\* The requests that pass allow_rcu = false, and those that pass true.
PendingRefusedOps ==
    {"sync_header", "dispatch_blocks", "init_runtime", "set_endpoint",
     "refresh_endpoint_signing_time", "handover_create_challenge",
     "handover_start", "handover_accept_challenge", "handover_receive",
     "load_chain_state", "load_storage_proof", "take_checkpoint"}
PendingAdmittedOps ==
    {"get_info", "get_runtime_info", "get_egress_messages", "get_endpoint_info",
     "get_master_key_apply", "stop"}

\* C12: while the safe-mode level is non-zero, a request that acquires the
\* guard without allow_safemode (init_runtime, get_runtime_info,
\* get_egress_messages, set_endpoint, refresh_endpoint_signing_time,
\* get_endpoint_info, get_master_key_apply, load_chain_state,
\* take_checkpoint) fails at the guard and changes no state, with
\* LockError::SafeMode unless a state replacement is in progress as well,
\* while get_info, sync_header, dispatch_blocks, the four handover steps,
\* load_storage_proof and stop are never refused with LockError::SafeMode,
\* and with no lock error at all when no state replacement is in progress.
SafeModeAdmission ==
    [][ pfx["S"].safe_mode_level # 0 =>
          /\ ret'.op \in SafeModeRefusedOps =>
                /\ ret'.err \in LockFailures
                /\ ~pfx["S"].state_pending => ret'.err = LockSafeMode
                /\ UNCHANGED << pfx, rng, net, hist >>
          /\ ret'.op \in SafeModeAdmittedOps =>
                /\ ret'.err # LockSafeMode
                /\ ~pfx["S"].state_pending => ret'.err \notin LockFailures
      ]_vars

\* A node in safe mode whose blocks were dispatched and whose
\* take_checkpoint was refused with LockError::SafeMode.
SafeModeRefusal ==
    /\ pfx["S"].safe_mode_level # 0
    /\ NextBlock("S") > 1
    /\ ret.op = "take_checkpoint"
    /\ ret.err = LockSafeMode

\* C13: while a state-replacing operation is in progress, a request that
\* acquires the guard without allow_rcu (sync_header, dispatch_blocks,
\* init_runtime, set_endpoint, refresh_endpoint_signing_time, the four
\* handover steps, load_chain_state, load_storage_proof, take_checkpoint)
\* and reaches the guard fails there and changes no state, with
\* LockError::StatePending unless safe mode refuses it as well, while
\* get_info, get_runtime_info, get_egress_messages, get_endpoint_info,
\* get_master_key_apply and stop are never refused with
\* LockError::StatePending.
StatePendingAdmission ==
    [][ pfx["S"].state_pending =>
          /\ (ret'.op \in PendingRefusedOps /\ ret'.err # DecodeError) =>
                /\ ret'.err \in LockFailures
                /\ (pfx["S"].safe_mode_level = 0
                      \/ ret'.op \in SafeModeAdmittedOps) =>
                        ret'.err = LockStatePending
                /\ UNCHANGED << pfx, rng, net, hist >>
          /\ ret'.op \in PendingAdmittedOps =>
                /\ ret'.err # LockStatePending
                /\ pfx["S"].safe_mode_level = 0 => ret'.err \notin LockFailures
      ]_vars

\* An initialized node with a state replacement in progress whose
\* dispatch_blocks was refused with LockError::StatePending.
StatePendingRefusal ==
    /\ pfx["S"].state_pending
    /\ IsSome(pfx["S"].runtime_state)
    /\ ret.op = "dispatch_blocks"
    /\ ret.err = LockStatePending


\* ---- the Runtime Guard's mutual exclusion

\* C11: in every interleaving of concurrent requests at most one thread
\* holds the guard, and while a thread holds it every step that writes the
\* Pflix state, draws from its random source, or returns a response read
\* from the state is a step of that thread: the handlers of two requests
\* (dispatch_blocks and handover_start, say) never interleave, and no
\* request returns what it read from a state another handler has only
\* partly updated.
GuardMutualExclusion ==
    [][ /\ Cardinality(Holders) <= 1
        /\ \A t \in Threads :
              (guard.thread[t].pc = "held" /\ guard'.thread[t] = guard.thread[t])
                 => UNCHANGED << pfx, rng, net, hist, ret >>
      ]_vars

\* A thread holds the guard half-way through a batch of blocks, after a
\* handover_start has handed the key over, while the other thread is idle.
MidBatchHandoverDone ==
    /\ \E t \in Threads :
          /\ Holding(t, "dispatch_blocks", 1)
          /\ \A u \in Threads \ {t} : guard.thread[u].pc = "idle"
    /\ ret.op = "handover_start"
    /\ ret.err = ""


\* ---- load_storage_proof

\* C21: a load_storage_proof call that the guard admits fails at safe-mode
\* level 0 or 1 and leaves the instance, its chain storage included, as it
\* was; at level 2 or above it fails with 'Runtime not initialized' when
\* there is no runtime state and otherwise succeeds, loads the proof into
\* the chain storage and changes nothing else.
ProofLoadOnlyFromLevel2 ==
    [][(ret'.op = "load_storage_proof" /\ ret'.err \notin LockFailures) =>
         LET p == pfx[ret'.node] IN
         IF p.safe_mode_level < 2
         THEN /\ ret'.err = "Can not load storage proof when safe_mode_level < 2"
              /\ pfx' = pfx
         ELSE IF p.runtime_state = None
         THEN /\ ret'.err = RuntimeNotInitialized
              /\ pfx' = pfx
         ELSE /\ ret'.err = ""
              /\ Unwrap(pfx'[ret'.node].runtime_state).proof_loaded
              /\ pfx' = [pfx EXCEPT ![ret'.node].runtime_state =
                            Some([Unwrap(p.runtime_state) EXCEPT !.proof_loaded = TRUE])]
      ]_vars

\* At level 2 a proof was loaded into the storage of an initialized runtime.
ProofLoadedAtLevel2 ==
    /\ ret.op = "load_storage_proof" /\ ret.err = ""
    /\ pfx[ret.node].safe_mode_level = 2
    /\ Unwrap(pfx[ret.node].runtime_state).proof_loaded


\* ---- sync_header in chunks

AuthoritySet(n) == Unwrap(pfx[n].runtime_state).authority_set

\* The sequence a call was given is a sequence of the chain, with the
\* change its headers need, that continues where node n is.
ChainSequence(n, o) ==
    /\ o.offered > 0 /\ o.contiguous
    /\ o.first = NextHeader(n)
    /\ o.signers = {ChainSet(i) : i \in o.first .. o.first + o.offered - 1}
    /\ o.change = ChainChange(o.first, o.offered)

\* C22: on an initialized node, a sync_header call given a sequence of the
\* chain that continues at next_header_number succeeds, returns the number
\* of its last header and leaves the synchronizer right after that header
\* with the authority set the chain has there, a state that does not depend
\* on where earlier calls ended; so a node that was given a sequence in
\* chunks and a node that was given it in one call, once at the same
\* header, have the same authority set.  A call given anything else,
\* non-contiguous headers in particular, fails and changes nothing.
ChunkedSyncAgrees ==
    [][ /\ (/\ ret'.op = "sync_header" /\ "offered" \in DOMAIN ret'.obs
            /\ pfx[ret'.node].runtime_state # None) =>
              LET n == ret'.node
                  o == ret'.obs
                  last == o.first + o.offered - 1
              IN  IF ChainSequence(n, o)
                  THEN /\ ret'.err = ""
                       /\ o.synced_to = last
                       /\ Unwrap(pfx'[n].runtime_state).next_header_number = last + 1
                       /\ Unwrap(pfx'[n].runtime_state).authority_set = ChainSet(last + 1)
                  ELSE /\ ret'.err # ""
                       /\ pfx' = pfx
        /\ (/\ pfx'["S"].runtime_state # None /\ pfx'["C"].runtime_state # None
            /\ Unwrap(pfx'["S"].runtime_state).next_header_number
                 = Unwrap(pfx'["C"].runtime_state).next_header_number) =>
              Unwrap(pfx'["S"].runtime_state).authority_set
                 = Unwrap(pfx'["C"].runtime_state).authority_set
      ]_vars

\* Node S took the whole chain in one call, node C has just taken its last
\* chunk, which starts after the change of the authority set, and both are
\* at the same header with the new authority set.
WholeAndChunksMeet ==
    /\ ret.op = "sync_header" /\ ret.node = "C" /\ ret.err = ""
    /\ ret.obs.first > ChangeAt
    /\ NextHeader("S") = MaxChain + 1
    /\ NextHeader("C") = MaxChain + 1
    /\ AuthoritySet("S") = 1 /\ AuthoritySet("C") = 1


\* ---- get_runtime_info

InfoReturned == ret.op = "get_runtime_info" /\ "response" \in DOMAIN ret.obs

\* The report cached in the runtime info of instance p, if any.
CachedReport(p) ==
    IF p.runtime_info = None THEN None ELSE Unwrap(p.runtime_info).attestation

\* C23: a get_runtime_info call that finds a cached report and is given
\* force_refresh, or an operator, or finds the report older than one hour,
\* discards that report: whether the call succeeds or fails the report is
\* no longer cached after it, and the response of a successful call does
\* not carry it.
ForcedRefreshDiscardsReport ==
    [][(/\ ret'.op = "get_runtime_info" /\ "response" \in DOMAIN ret'.obs
        /\ ret'.err # RuntimeNotInitialized
        /\ CachedReport(pfx[ret'.node]) # None
        /\ \/ ret'.obs.refresh_ra
           \/ ret'.obs.operator # None
           \/ ret'.obs.env.expired)
       => /\ CachedReport(pfx'[ret'.node]) # CachedReport(pfx[ret'.node])
          /\ ret'.err = "" =>
                Unwrap(ret'.obs.response).attestation # CachedReport(pfx[ret'.node])
      ]_vars

\* A forced refresh found the first report cached and returned the second.
ReportRegenerated ==
    /\ InfoReturned /\ ret.err = ""
    /\ ret.obs.refresh_ra /\ ret.obs.operator = None /\ ~ret.obs.env.expired
    /\ ret.obs.ra_called
    /\ Unwrap(Unwrap(ret.obs.response).attestation).serial = 2


\* C24: a get_runtime_info call without force_refresh and without an
\* operator, made within the validity window right after a successful call
\* of the same kind, with the chain registration and the synchronizer as
\* that call met them, returns the same response and does not call
\* create_attestation_report_on.
CacheReused ==
    [][(/\ InfoReturned /\ ret.err = ""
        /\ ~ret.obs.refresh_ra /\ ret.obs.operator = None
        /\ ret'.op = "get_runtime_info" /\ "response" \in DOMAIN ret'.obs
        /\ ret'.node = ret.node
        /\ ret'.err \notin LockFailures
        /\ ~ret'.obs.refresh_ra /\ ret'.obs.operator = None
        /\ ~ret'.obs.env.expired
        /\ ret'.obs.env.registered = ret.obs.env.registered
        /\ ret'.obs.env.validated = ret.obs.env.validated)
       => /\ ret'.err = ""
          /\ ret'.obs.response = ret.obs.response
          /\ ~ret'.obs.ra_called
          /\ pfx' = pfx
      ]_vars

\* The report a call created is cached, and a plain call has returned it
\* without creating another.
CachedReportReturned ==
    /\ InfoReturned /\ ret.err = ""
    /\ ~ret.obs.refresh_ra /\ ret.obs.operator = None /\ ~ret.obs.env.expired
    /\ ~ret.obs.ra_called
    /\ Unwrap(ret.obs.response).attestation # None
    /\ pfx[ret.node].ra_reports = 1

\* C28: get_runtime_info calls create_attestation_report_on only when the
\* synchronizer state is validated and the identity key is trusted, or the
\* worker is registered on chain, or no attestation provider is
\* configured; in every other case the response carries no report, or the
\* one that was cached before the call.
NoReportForInjectedKey ==
    [][(ret'.op = "get_runtime_info" /\ "response" \in DOMAIN ret'.obs
        /\ ret'.err \notin LockFailures) =>
         LET p == pfx[ret'.node]
             allowed == /\ ret'.obs.env.validated
                        /\ \/ p.trusted_sk
                           \/ ret'.obs.env.registered
                           \/ p.attestation_provider = None
         IN  ~allowed =>
               /\ ~ret'.obs.ra_called
               /\ pfx'[ret'.node].ra_reports = p.ra_reports
               /\ ret'.err = "" =>
                     Unwrap(ret'.obs.response).attestation
                        \in {None, CachedReport(p)}
      ]_vars

\* A node that runs on a key sealed by a handover, with an attestation
\* provider configured and not registered on chain, was asked for a fresh
\* report and returned none.
InjectedKeyGotNoReport ==
    /\ InfoReturned /\ ret.err = ""
    /\ ~pfx[ret.node].trusted_sk
    /\ pfx[ret.node].attestation_provider # None
    /\ ret.obs.refresh_ra /\ ret.obs.env.validated /\ ~ret.obs.env.registered
    /\ Unwrap(ret.obs.response).attestation = None


\* ---- create_attestation_report_on

AttestationReturned == ret.op = "create_attestation_report_on"

\* C25 as stated: the call ends after at most max_retries + 1 attempts,
\* with the report of the first successful attempt or, once attempt
\* max_retries + 1 has failed, with the error, and the wait after the k-th
\* failure (counted from 0) is min(2^k, 8) seconds.
RetriesBackOffCappedAt8 ==
    AttestationReturned =>
      LET run == ret.obs IN
      /\ run.calls <= run.max_retries + 1
      /\ \A k \in 1 .. Len(run.sleeps) : run.sleeps[k] = Min8Shl(k - 1)
      /\ IF run.failures <= run.max_retries
         THEN /\ ret.err = ""
              /\ run.report = Some(run.failures + 1)
              /\ run.calls = run.failures + 1
              /\ Len(run.sleeps) = run.failures
         ELSE /\ ret.err = "Failed to create attestation report"
              /\ run.calls = run.max_retries + 1
              /\ Len(run.sleeps) = run.max_retries


\* ---- the order of the checks of handover_start
RaErrors ==
    {"Client attestation not found", "Decode client attestation failed",
     "Invalid client RA report"}
LaErrors == {"Invalid client LA report", "No remote handover"}
LaunchDateErrors ==
    {"Cannot read server pflix info", "Server pflix not allowed on chain",
     "Client attestation not found", "Client pflix not allowed on chain",
     "Same pflix version or rollback ,No local handover provided"}

\* The errors a run may end with, given which of its checks hold.
ErrorsOfFirstFailure(g) ==
    IF ~g.ra THEN RaErrors
    ELSE IF ~g.challenge THEN {"Invalid challenge"}
    ELSE IF ~g.la THEN LaErrors
    ELSE IF ~g.age THEN {"Outdated challenge"}
    ELSE IF ~g.rollback THEN LaunchDateErrors
    ELSE {"", "Persistent runtime data not found",
          "Failed to create attestation report"}

\* The last call was a handover_start that the guard admitted.
StartObserved == StartReturned /\ "gates" \in DOMAIN ret.obs

\* C31: handover_start fails at the first check that does not hold, in the
\* order client RA report, challenge, client LA report, challenge age,
\* launch dates; a request rejected before the challenge check
\* (uninitialised runtime, undecodable request, RA report) changes nothing
\* and leaves the last-issued challenge in place; every request that
\* reaches the challenge check leaves no challenge, whatever its outcome.
GatesInOrder ==
    [][(StartObserved)' =>
         IF ret'.obs.gates = None
         THEN /\ ret'.err \in {RuntimeNotInitialized,
                              "Decode challenge handler failed"}
              /\ pfx' = pfx
         ELSE LET g == Unwrap(ret'.obs.gates) IN
              /\ ret'.err \in ErrorsOfFirstFailure(g)
              /\ IF ~g.ra
                 THEN pfx' = pfx
                 ELSE pfx'[ret'.node].handover_last_challenge = None]_vars

\* A request with the outstanding challenge, an acceptable RA report, a
\* local report from another machine and a challenge too old was rejected
\* for the local report, and the challenge is gone.
RejectedAtLaBeforeAge ==
    /\ StartObserved /\ ret.obs.gates # None
    /\ LET g == Unwrap(ret.obs.gates) IN
          g.ra /\ g.challenge /\ ~g.la /\ ~g.age
    /\ ret.err \in LaErrors
    /\ pfx[LastNode].handover_last_challenge = None

\* The outstanding challenge survived a request whose RA report was bad.
ChallengeKeptBeforeCheck ==
    /\ StartObserved /\ ret.obs.gates # None
    /\ ~Unwrap(ret.obs.gates).ra /\ Unwrap(ret.obs.gates).challenge
    /\ pfx[LastNode].handover_last_challenge # None


\* ---- verify_worker_key_challenge and a wrong challenge
\* C32: every handover_start that gets to verify_worker_key_challenge
\* leaves the slot of the last-issued challenge empty, whether the
\* presented challenge matched or not, and is rejected as 'Invalid
\* challenge' unless the slot held exactly the presented challenge; so
\* once the check has run, the slot stays empty and every challenge is
\* rejected until a new one is created.
WrongChallengeInvalidates ==
    [][/\ (StartReturned /\ ret.obs.reached_challenge)' =>
            /\ pfx'[ret'.node].handover_last_challenge = None
            /\ (pfx[ret'.node].handover_last_challenge # ret'.obs.challenge)
                  => ret'.err = "Invalid challenge"
       /\ \A n \in Nodes :
            hist'[n].checked => pfx'[n].handover_last_challenge = None]_vars

\* The challenge issued last was presented and rejected as invalid although
\* it had never been accepted: a request with another challenge had emptied
\* the slot before.
ValidChallengeLostToWrongOne ==
    /\ StartReturned /\ ret.obs.reached_challenge
    /\ ret.err = "Invalid challenge"
    /\ ret.obs.challenge = hist[LastNode].last_issued
    /\ hist[LastNode].accepted = 0
    /\ pfx[LastNode].handover_last_challenge = None

\* ------------------------------------------- a block that is refused
\* The last dispatch_blocks call ended with an error of feed_block; the
\* block it refused is the one after the blocks it applied.
FeedRefused == DispatchReturned /\ ret.err # "" /\ ret.obs.fed_from > 0

\* C33: when feed_block rejects block k of a batch, dispatch_blocks
\* returns the error of feed_block; block k and the later blocks are
\* neither applied nor dispatched (no step of the call concerns them) and
\* next_block_number does not pass k;
\* the blocks of the batch before k stay applied and, at level 0,
\* dispatched; and after a state-root mismatch the sound block k is what
\* the node accepts next.
FailedBlockAborts ==
    [][FeedRefused' =>
         /\ ret'.err = RefusedBlockFed'.err
         /\ NextBlock(LastNode)' = NextBlock(LastNode') + ret'.obs.fed
         /\ NextBlock(LastNode)' <= RefusedBlock'
         /\ Unwrap(pfx[LastNode].runtime_state)'.storage_at < RefusedBlock'
         /\ \A i \in 1 .. Len(ret'.obs.steps) :
               ret'.obs.steps[i].block < RefusedBlock'
         /\ ret'.obs.fed = 0 => pfx'[LastNode'] = pfx[LastNode']
         /\ ret'.obs.fed > 0 =>
               /\ NextBlock(LastNode)' = RefusedBlock'
               /\ Unwrap(pfx[LastNode].runtime_state)'.storage_at
                     = RefusedBlock' - 1
               /\ Level' = 0 =>
                     /\ ret'.obs.dispatched = ret'.obs.fed
                     /\ Unwrap(pfx[LastNode].runtime_state)'.dispatched_at
                           = RefusedBlock' - 1
                     /\ Unwrap(pfx[LastNode].runtime_state)'.mq_purged_at
                           = RefusedBlock' - 1
               /\ Level' > 0 =>
                     /\ ret'.obs.dispatched = 0
                     /\ Unwrap(pfx[LastNode].runtime_state)'.dispatched_at
                           = Unwrap(pfx[LastNode'].runtime_state).dispatched_at
                     /\ Unwrap(pfx[LastNode].runtime_state)'.mq_purged_at
                           = Unwrap(pfx[LastNode'].runtime_state).mq_purged_at
         /\ ret'.err = StateRootMismatch =>
               /\ RefusedBlock' \in ret'.obs.bad_roots
               /\ NextBlockFed'.err = ""
    ]_vars

\* The second block of a batch was refused for its state root at level 0:
\* the first one is applied and its messages are dispatched, the second
\* one is not.
SecondBlockRefused ==
    /\ FeedRefused /\ ret.err = StateRootMismatch /\ Level = 0
    /\ ret.obs.offered = 2 /\ ret.obs.fed = 1 /\ ret.obs.dispatched = 1
    /\ NextBlock(LastNode) = RefusedBlock
    /\ Unwrap(pfx[LastNode].runtime_state).dispatched_at = RefusedBlock - 1

\* --------------------------------------- a batch with nothing new in it
\* The last dispatch_blocks call returned Ok and fed no block: its batch
\* was empty after the filter of line 648.
NothingRetained ==
    /\ DispatchReturned /\ ret.err = ""
    /\ ret.obs.fed = 0 /\ ret.obs.fed_from = 0

NothingNewSyncedAfterLoad ==
    /\ NothingRetained /\ ret.obs.offered > 0
    /\ Unwrap(pfx[LastNode].system).genesis_block = 1
    /\ Unwrap(pfx[LastNode].runtime_state).dispatched_at > 1
    /\ NextBlock(LastNode) = 2
    /\ ret.obs.synced_to = 1

\* ------------------------------------------ the order of work on a block
\* What C35 asks of block number with count inbound messages: the block
\* is applied, the outbound queue purged, will_process_block run, every
\* message dispatched and processed in storage order, did_process_block
\* run once and the checkpoint gate passed, all of it on the storage as of
\* this block.
MessageSteps(number, count) ==
    [j \in 1 .. 2 * count |->
        IF j % 2 = 1
        THEN Step("dispatch", number, number, (j + 1) \div 2, number)
        ELSE Step("process_messages", number, number, j \div 2, number)]
BlockSteps(number, count) ==
    << Step("feed_block", number, 0, 0, number),
       Step("purge_mq", number, 0, 0, number),
       Step("will_process_block", number, 0, 0, number) >>
    \o MessageSteps(number, count) \o
    << Step("did_process_block", number, 0, 0, number),
       Step("maybe_take_checkpoint", number, 0, 0, number) >>

\* The same for the blocks number from .. to of a batch that starts at
\* block first and whose blocks carry messages[1], messages[2], ...
\* messages, one block after the other.
RECURSIVE BatchSteps(_, _, _, _)
BatchSteps(first, messages, from, to) ==
    IF from > to THEN << >>
    ELSE BlockSteps(from, messages[from - first + 1])
           \o BatchSteps(first, messages, from + 1, to)

\* C35: at safe-mode level 0 the steps of a dispatch_blocks call are, for
\* each block it applied, in ascending order: feed_block, purge_mq,
\* will_process_block, dispatch and process_messages for each inbound
\* message in storage order, did_process_block once and the checkpoint
\* gate; the steps of a block all come before those of the next block,
\* and the messages of a block are processed on the storage as of that
\* block.
BlockStepsInOrder ==
    (DispatchReturned /\ Level = 0 /\ ret.obs.fed_from > 0) =>
        ret.obs.steps = BatchSteps(ret.obs.first, ret.obs.messages,
                                   ret.obs.fed_from,
                                   ret.obs.fed_from + ret.obs.fed - 1)

\* A batch of two blocks with two or more messages each was applied at
\* level 0.
TwoBlocksWithMessagesDispatched ==
    /\ DispatchReturned /\ ret.err = "" /\ Level = 0
    /\ ret.obs.fed = 2 /\ ret.obs.messages[1] >= 2 /\ ret.obs.messages[2] >= 2
    /\ Len(ret.obs.steps) = 10 + 2 * (ret.obs.messages[1] + ret.obs.messages[2])
    /\ ret.obs.steps[4].kind = "dispatch"

\* --------------------------------------------------- the signed endpoint
\* The endpoint a signed endpoint response was made for.
EndpointOf(resp) == Unwrap(resp.payload).endpoint

\* get_endpoint_info returned a signed response.
SignedEndpointReturned ==
    /\ ret.op = "get_endpoint_info" /\ ret.err = ""
    /\ ret.obs.payload # None

\* C36 as stated: whenever a signed endpoint response is cached, it was
\* made for the endpoint the node records now, and get_endpoint_info
\* never returns a signature over another endpoint than the one last given
\* to set_endpoint, also after a set_endpoint call that failed.
SignedEndpointCurrent ==
    /\ \A n \in Nodes : pfx[n].signed_endpoint # None =>
          EndpointOf(Unwrap(pfx[n].signed_endpoint)) = pfx[n].endpoint
    /\ SignedEndpointReturned =>
          /\ EndpointOf(ret.obs) = pfx[LastNode].endpoint
          /\ ret.obs.signature = Some([signer |-> Unwrap(pfx[LastNode].system).identity_key,
                                       content |-> Unwrap(ret.obs.payload)])

\* What does hold: the cached response is a signature of the node's own
\* identity key over its payload, and it was made for the recorded
\* endpoint unless the recorded endpoint is one that cannot be signed.
SignedEndpointCurrentOrUnsignable ==
    \A n \in Nodes : pfx[n].signed_endpoint # None =>
        LET resp == Unwrap(pfx[n].signed_endpoint) IN
        /\ pfx[n].system # None
        /\ resp.signature = Some([signer |-> Unwrap(pfx[n].system).identity_key,
                                  content |-> Unwrap(resp.payload)])
        /\ \/ EndpointOf(resp) = pfx[n].endpoint
           \/ pfx[n].endpoint = Some(TooLargeEndpoint)

\* get_endpoint_info returned the signature over an earlier endpoint
\* while the recorded endpoint is the one set_endpoint failed to sign.
StaleSignedEndpointReturned ==
    /\ SignedEndpointReturned
    /\ pfx[LastNode].endpoint = Some(TooLargeEndpoint)
    /\ EndpointOf(ret.obs) = Some("endpoint_a")

\* ------------------------------------------- one handover session a client
\* The last call was admitted and ran handover_accept_challenge /
\* handover_receive.
AcceptRan == AcceptReturned /\ "stored_key" \in DOMAIN ret.obs
ReceiveRan == ReceiveReturned /\ "sealed_under" \in DOMAIN ret.obs

\* The worker key of the last handover_receive request was encrypted for
\* the public key of ephemeral key k.
EncryptedFor(k) == k \in ret.obs.sealed_under

\* What a client does with whatever a caller sends: every
\* handover_accept_challenge call puts a new ephemeral key in the place of
\* the stored one, handover_receive accepts a worker key only if it was
\* encrypted for the ephemeral key stored last, and a failed
\* handover_receive changes nothing.
SessionReplaced ==
    /\ AcceptRan' =>
          /\ pfx'[LastNode'].handover_ecdh_key = Some(EphKey(rng'.eph))
          /\ pfx'[LastNode'].handover_ecdh_key # pfx[LastNode'].handover_ecdh_key
    /\ ReceiveRan' =>
          LET held == pfx[LastNode'].handover_ecdh_key IN
          /\ ret'.err = "" =>
                /\ held = Some(EphKey(rng.eph))
                /\ EphKey(rng.eph) \in ret'.obs.sealed_under
                /\ ret'.obs.saved # None
                /\ pfx'[LastNode'].sealed = ret'.obs.saved
          /\ (held = None \/ Unwrap(held) \notin ret'.obs.sealed_under)
                => ret'.err # ""
          /\ ret'.err # "" => pfx'[LastNode'] = pfx[LastNode']
StaleSessionRefusedFromAnyCaller == [][SessionReplaced]_vars

\* The errors of handover_receive that concern the ephemeral key.
SessionErrors == {"Handover ecdhkey not initialized", "Decrypt secret failed"}

\* C37: every handover_accept_challenge call, failed or not, puts a new
\* ephemeral ECDH key in the place of the stored one, so the client holds
\* one handover session at most: of the worker keys the server made,
\* handover_receive refuses the one encrypted for an earlier ephemeral
\* key and leaves the node, its sealed identity included, as it was, and
\* it decrypts the one encrypted for the ephemeral key stored last, which
\* it accepts unless the server attestation is refused.
OneHandoverSession ==
    [][/\ SessionReplaced
       /\ ReceiveRan' =>
             LET held == pfx[LastNode'].handover_ecdh_key IN
             /\ (held # None /\ Unwrap(held) \in ret'.obs.sealed_under)
                   => ret'.err \notin SessionErrors
             /\ (held # None /\ Unwrap(held) \notin ret'.obs.sealed_under)
                   => ret'.err \in SessionErrors \/ ret'.obs.ra_validated = FALSE
    ]_vars

\* After two challenges were accepted, the worker key encrypted for the
\* first ephemeral key was refused and the node has no sealed identity.
FirstSessionKeyRefused ==
    /\ ReceiveRan /\ ret.err = "Decrypt secret failed"
    /\ rng.eph = 2 /\ EncryptedFor(EphKey(1))
    /\ pfx[LastNode].handover_ecdh_key = Some(EphKey(2))
    /\ pfx[LastNode].sealed = None

\* After two challenges were accepted, the worker key encrypted for the
\* second ephemeral key was accepted.
SecondSessionKeyAccepted ==
    /\ ReceiveRan /\ ret.err = ""
    /\ rng.eph = 2 /\ EncryptedFor(EphKey(2))
    /\ pfx[LastNode].sealed = ret.obs.saved

\* -------------------------------------------- BFV secret keys as bytes
FromBytesReturned == ret.op = "from_bytes"

\* C38: for every secret key sk with parameters par, from_bytes of
\* to_bytes(sk) and par succeeds and yields sk: the same coefficients in
\* the same order, negative ones included, with the same parameters.
SecretKeyBytesRoundTrip ==
    (FromBytesReturned /\ ret.obs.as_written) =>
        /\ ret.obs.bytes = to_bytes(ret.obs.sk)
        /\ Len(ret.obs.bytes) = 8 + 8 * Len(ret.obs.sk.coeffs)
        /\ ret.err = ""
        /\ ret.obs.read = Some(ret.obs.sk)

\* A key with a negative and a positive coefficient of several bytes came
\* back from its bytes.
NegativeCoefficientsReadBack ==
    /\ FromBytesReturned /\ ret.obs.as_written /\ ret.err = ""
    /\ ret.obs.sk.coeffs = << -32769, 65536 >>
    /\ SubSeq(ret.obs.bytes, 9, 16) = << 255, 127, 255, 255, 255, 255, 255, 255 >>
    /\ Unwrap(ret.obs.read).coeffs = << -32769, 65536 >>

\* The coefficient count the bytes of the last from_bytes call declare, as
\* a u64, and 8 + 8 * count in ten bytes, where it cannot overflow.
DeclaredCount == SubSeq(ret.obs.bytes, 1, 8)
DeclaredLength ==
    AddBytes(MulBytes(DeclaredCount \o << 0, 0 >>, 8, 1, 0).bytes, 1, 8).bytes

\* The input is shorter than 8 bytes or than 8 + 8 * n bytes, n being the
\* count it declares.
ShortInput ==
    \/ Len(ret.obs.bytes) < 8
    \/ LenBelow(Len(ret.obs.bytes), DeclaredLength)

DeserializationErrors == {InvalidByteLength, MultiplicationOverflow}

\* C39 as stated: for every input shorter than 8 bytes or than 8 + 8 * n
\* bytes, from_bytes returns an error and does not panic or overflow,
\* also where 8 * n or 8 + 8 * n exceeds the range of a machine word.
ShortInputRejected ==
    (FromBytesReturned /\ ShortInput) => ret.err \in DeserializationErrors

\* On a target of 64 bits the count 2^61 - 1 is the one for which 8 * n
\* fits a word and 8 + 8 * n does not.
CountJustBelowOverflow == << 255, 255, 255, 255, 255, 255, 255, 31 >>

\* What does hold: on a target of 64 bits every short input but the ones
\* that declare 2^61 - 1 coefficients gets an error.
ShortInputRejectedBelowOverflow ==
    (/\ FromBytesReturned /\ ShortInput
     /\ ret.obs.build.word_bytes = 8
     /\ Len(ret.obs.bytes) >= 8 => DeclaredCount # CountJustBelowOverflow)
        => ret.err \in DeserializationErrors

\* An input of 8 bytes and more that declares 2^61 - 1 coefficients made
\* from_bytes panic on a target of 64 bits: at the addition in a build with
\* overflow checks, at the allocation in one without.
PanickedAtAddition ==
    /\ FromBytesReturned /\ ret.err = AddPanic
    /\ ret.obs.build = [overflow_checks |-> TRUE, word_bytes |-> 8]
    /\ DeclaredCount = CountJustBelowOverflow
PanickedAtAllocation ==
    /\ FromBytesReturned /\ ret.err = CapacityPanic
    /\ ret.obs.build = [overflow_checks |-> FALSE, word_bytes |-> 8]
    /\ DeclaredCount = CountJustBelowOverflow

\* On a target of 32 bits an input that declares 2^32 coefficients was
\* read as a key without coefficients.
TruncatedCountAccepted ==
    /\ FromBytesReturned /\ ret.err = "" /\ ShortInput
    /\ ret.obs.build.word_bytes = 4
    /\ DeclaredCount = << 0, 0, 0, 0, 1, 0, 0, 0 >>
    /\ Unwrap(ret.obs.read).coeffs = << >>


\* A node whose process was aborted by stop takes no further step: no
\* request is answered and nothing of its state changes.
StoppedNodeIsSilent ==
    [][~pfx["S"].stopped]_vars

\* stop was called with the removal of the checkpoints on a node that had
\* dispatched blocks: the process is gone.
StoppedAfterDispatch ==
    /\ ret.op = "stop" /\ ret.err = ProcessAborted
    /\ pfx["S"].stopped /\ NextBlock("S") > 1

====
